---- MODULE Spec2Model ----
(***************************************************************************)
(* Dispatch core of the WMS-to-shuttle gateway (kawr13/shuttle_broker3).   *)
(*                                                                         *)
(* The gateway is one asyncio process.  Every task runs without            *)
(* interruption from one suspension point (an await that really suspends:  *)
(* a Redis call, a TCP connect/write, a contended lock, a full queue, a    *)
(* sleep) to the next, so every action below is the code between two such  *)
(* points.  A Redis read is taken at the step that resumes after it.       *)
(***************************************************************************)
EXTENDS Integers, Sequences, FiniteSets, TLC

VARIABLES
    settings,          \* the tunables read from the environment at start
    state,             \* Redis: shuttle_id -> stored ShuttleState fields
    txn,               \* caller -> its update_shuttle_state_crud transaction
    shuttle_locks,     \* shuttle_id -> asyncio.Lock (holder, waiters)
    shuttle_queues,    \* shuttle_id -> asyncio.PriorityQueue._queue (heap)
    putters,           \* shuttle_id -> asyncio.Queue._putters
    command_registry,  \* command_id -> registry entry (a set of entries)
    pc,                \* task -> position in its coroutine
    args,              \* task -> the command the task is working on
    wpos,              \* worker -> index of the shuttle it is scanning
    failed_shuttles,   \* HeartbeatMonitor.failed_shuttles
    hbpos,             \* heartbeat -> index of the shuttle it is checking
    msg,               \* shuttle_id -> line being processed by the listener
    upd,               \* shuttle_id -> updates computed for that line
    conn,              \* shuttle_id -> the shuttle's connection to the listener
    now,               \* wall clock in milliseconds
    nextStamp,         \* number of time.time() stamps handed to queue entries
    nmsg,              \* number of lines received so far
    ncalls,            \* number of add_command_to_queue calls so far
    call,              \* the try_transition call under examination
    hooks,             \* the send_to_wms_webhook tasks, in the order created
    received,          \* the posts the WMS webhook endpoint has received
    ACTIVE_SHUTTLE_CONNECTIONS,  \* the gauge of the listener
    strangers,         \* handlers of unknown peers waiting in wait_closed()
    wire               \* the command whose frame is being built for the wire

vars == <<settings, state, txn, shuttle_locks, shuttle_queues, putters, command_registry,
          pc, args, wpos, failed_shuttles, hbpos, msg, upd, conn, now,
          nextStamp, nmsg, ncalls, call, hooks, received,
          ACTIVE_SHUTTLE_CONNECTIONS, strangers, wire>>

----------------------------------------------------------------------------
(* Bounds of the model *)

MaxSubmits == 3
MaxSubmitsHealthy == 4
MaxSubmitsBypass == 2
MaxClock == 1
MaxMessages == 1

(* Largest values of the tunables COMMAND_QUEUE_MAX_SIZE and               *)
(* COMMAND_PROCESSOR_WORKERS a run of the model is started with            *)

MaxQueueSize == 3
MaxWorkers == 2

(* Length of a run of the slices in which time passes, in seconds, and     *)
(* number of lines a shuttle sends in them                                 *)

MaxSeconds == 45
MaxLines == 2
MaxHeartbeatSeconds == 120

(* unknown peers whose connections are being closed at one time *)
MaxStrangers == 2

(* lines a shuttle sends over one operation: status, start and end *)
MaxReports == 3

(* Timeouts of the listener, in seconds *)

TCP_READ_TIMEOUT == 20
TCP_WRITE_TIMEOUT == 5

Ms(seconds) == seconds * 1000

----------------------------------------------------------------------------
(* Vocabulary *)

ShuttleOrder == <<"s1">>

Shuttles == {ShuttleOrder[i] : i \in 1..Len(ShuttleOrder)}

(* concurrent callers of the submission interface *)
Client(i) == <<"client", i>>

Clients == {Client(1), Client(2)}

(* the caller of cancel_command *)
Canceller == <<"canceller", 1>>

(* the command_processor_worker tasks: worker-1, worker-2, ... *)
Worker(i) == <<"worker", i>>

Workers == {Worker(i) : i \in 1..MaxWorkers}

(* coroutines that are inside update_shuttle_state_crud at the same time *)
Updater(i) == <<"updater", i>>

Updaters == {Updater(1), Updater(2)}

(* the HeartbeatMonitor._monitor_loop task *)
Heartbeat == <<"heartbeat", 1>>

(* the lifespan() coroutine of the application *)
Lifespan == <<"lifespan", 1>>

Tasks == Clients \cup Workers \cup {Heartbeat, Canceller, Lifespan}

NoTask == <<"none", 0>>

ShuttleCommand ==
    {"PALLET_IN", "PALLET_OUT", "FIFO", "FILO", "STACK_IN", "STACK_OUT",
     "HOME", "COUNT", "STATUS", "BATTERY", "WDH", "WLH", "MRCD"}

ShuttleOperationalStatus ==
    {"FREE", "BUSY", "ERROR", "NOT_READY", "AWAITING_MRCD", "UNKNOWN",
     "MOVING", "LOADING", "UNLOADING", "CHARGING", "LOW_BATTERY"}

ALLOWED_WHEN_BUSY_COMMANDS_NoHome == {"STATUS", "MRCD", "BATTERY", "WDH", "WLH"}

ALLOWED_WHEN_BUSY_COMMANDS == {"HOME", "STATUS", "MRCD", "BATTERY", "WDH", "WLH"}

(* params values: absent, empty, non-numeric, digits *)
NoParams == "None"

ParamValues == {NoParams, "", "abc", "1"}

(* str.isdigit() on the params values of the model *)
IsDigit(p) == p \in {"1", "7", "007", "999", "1000", "1234"}

(* Python truthiness of an Optional[str] *)
Truthy(p) == p # NoParams /\ p # ""

NoCommand == [command |-> "None", params |-> NoParams]

(* externaIID: absent *)
NoExternal == "None"

NoArgs == [shuttle_id |-> "None", command |-> "None", params |-> NoParams,
           externaIID |-> NoExternal,
           priority |-> 0, id |-> <<>>, timestamp |-> 0,
           error_code |-> "None", attempts |-> 0, ret |-> "none",
           metric |-> "none"]

NoError == "None"

NoMsg == [line |-> "None", stage |-> "idle"]

(* handle_shuttle_client's connection, accepted at time t: the handler's    *)
(* local last_seen, the time its pending read was started, and the number  *)
(* of MRCD lines it has written since it read the last line                *)
Accepted(t) == [open |-> TRUE, last_seen |-> t, read_start |-> t, wrote |-> 0]

Closed == [open |-> FALSE, last_seen |-> 0, read_start |-> 0, wrote |-> 0]

----------------------------------------------------------------------------
(* heapq as used by asyncio.PriorityQueue on (priority, data) tuples.      *)
(* Comparing two tuples compares the priorities; when they are equal it    *)
(* compares the data dicts, and dict < dict raises TypeError.              *)

TupleLT(x, y) ==
    IF x.priority # y.priority
    THEN (IF x.priority < y.priority THEN "T" ELSE "F")
    ELSE IF x = y THEN "F" ELSE "E"

Swap(h, i, j) == [h EXCEPT ![i] = h[j], ![j] = h[i]]

RECURSIVE SiftDown(_, _)
SiftDown(h, pos) ==
    IF pos <= 1 THEN [heap |-> h, err |-> FALSE]
    ELSE LET parent == pos \div 2
             c == TupleLT(h[pos], h[parent])
         IN  IF c = "E" THEN [heap |-> h, err |-> TRUE]
             ELSE IF c = "F" THEN [heap |-> h, err |-> FALSE]
             ELSE SiftDown(Swap(h, pos, parent), parent)

RECURSIVE SiftUp(_, _)
SiftUp(h, pos) ==
    IF pos > Len(h) \div 2 THEN SiftDown(h, pos)
    ELSE LET left == 2 * pos
             right == 2 * pos + 1
             c == IF right <= Len(h) THEN TupleLT(h[left], h[right]) ELSE "T"
             child == IF c = "T" THEN left ELSE right
         IN  IF c = "E" THEN [heap |-> h, err |-> TRUE]
             ELSE SiftUp(Swap(h, pos, child), child)

HeapPush(h, item) == SiftDown(Append(h, item), Len(h) + 1)

HeapPop(h) ==
    LET last == h[Len(h)]
        rest == SubSeq(h, 1, Len(h) - 1)
    IN  IF rest = <<>>
        THEN [heap |-> <<>>, item |-> last, err |-> FALSE]
        ELSE LET r == SiftUp([rest EXCEPT ![1] = last], 1)
             IN  [heap |-> r.heap, item |-> rest[1], err |-> r.err]

----------------------------------------------------------------------------
(* State store (Redis) *)

(* GET of a key that does not exist *)
NoRecord == [status |-> "None"]

InitialState == [status |-> "UNKNOWN", current_command |-> NoCommand,
                 error_code |-> NoError, last_seen |-> 0,
                 externaIID |-> NoExternal]

Merged_CallerWins(rec, updates, t) ==
    [f \in DOMAIN rec |->
        IF f \in DOMAIN updates THEN updates[f]
        ELSE IF f = "last_seen" THEN t ELSE rec[f]]

(* the record update_shuttle_state_crud stores at time t: the stored       *)
(* record with the caller's updates merged in, then last_seen set to t     *)
Merged(rec, updates, t) ==
    [f \in DOMAIN rec |->
        IF f = "last_seen" THEN t
        ELSE IF f \in DOMAIN updates THEN updates[f] ELSE rec[f]]

(* update_shuttle_state_crud as one step: the transaction that commits *)
update_shuttle_state_crud(rec, updates) ==
    IF rec = NoRecord THEN rec ELSE Merged(rec, updates, now)

NoTxn == [stage |-> "idle", shuttle_id |-> "None", updates |-> <<>>,
          data |-> <<>>, dirty |-> FALSE, read |-> FALSE, result |-> "none"]

----------------------------------------------------------------------------
(* State machine *)

Triggers == ShuttleCommand \cup
            {"DONE", "ERROR", "BATTERY_LOW", "CHARGING", "CHARGED", "RESET"}

FromFree ==
    [t \in {"PALLET_IN", "PALLET_OUT", "FIFO", "FILO", "STACK_IN", "STACK_OUT",
            "HOME", "BATTERY_LOW", "ERROR"} |->
        CASE t \in {"PALLET_IN", "STACK_IN"} -> "LOADING"
          [] t \in {"PALLET_OUT", "STACK_OUT"} -> "UNLOADING"
          [] t \in {"FIFO", "FILO", "HOME"} -> "MOVING"
          [] t = "BATTERY_LOW" -> "LOW_BATTERY"
          [] t = "ERROR" -> "ERROR"]

FromWorking_NoHome ==
    [t \in {"DONE", "ERROR"} |->
        CASE t = "DONE" -> "FREE"
          [] t = "ERROR" -> "ERROR"]

FromWorking ==
    [t \in {"DONE", "ERROR", "HOME"} |->
        CASE t = "DONE" -> "FREE"
          [] t = "ERROR" -> "ERROR"
          [] t = "HOME" -> "MOVING"]

transitions ==
    [st \in {"FREE", "BUSY", "LOADING", "UNLOADING", "MOVING", "ERROR",
             "LOW_BATTERY", "CHARGING"} |->
        CASE st = "FREE" -> FromFree
          [] st \in {"BUSY", "LOADING", "UNLOADING"} -> FromWorking
          [] st = "MOVING" -> [t \in {"DONE", "ERROR"} |->
                                 IF t = "DONE" THEN "FREE" ELSE "ERROR"]
          [] st = "ERROR" -> [t \in {"RESET"} |-> "FREE"]
          [] st = "LOW_BATTERY" -> [t \in {"CHARGING", "ERROR"} |->
                                 IF t = "CHARGING" THEN "CHARGING" ELSE "ERROR"]
          [] st = "CHARGING" -> [t \in {"CHARGED", "ERROR"} |->
                                 IF t = "CHARGED" THEN "FREE" ELSE "ERROR"]]

NoTransition == "None"

(* shuttle_id and context go to the log and to the transition handler    *)
(* only; no handler is ever registered, and one that were would run       *)
(* before the return with its exceptions swallowed                        *)
try_transition(current_state, trigger) ==
    IF current_state \notin DOMAIN transitions THEN NoTransition
    ELSE IF trigger \notin DOMAIN transitions[current_state] THEN NoTransition
    ELSE transitions[current_state][trigger]

NoCall == [stage |-> "none", shuttle_id |-> "None", current_state |-> "None",
           trigger |-> "None", context |-> "None", result |-> "None"]

NoWire == [stage |-> "none", command |-> "None", params |-> "None",
           param_for_shuttle |-> "None", full_command |-> <<>>]

----------------------------------------------------------------------------
(* asyncio.Lock *)

FreeLock == [holder |-> NoTask, waiters |-> <<>>]

locked(lk) == lk.holder # NoTask

(* acquire() succeeds at once only on an unlocked lock nobody waits for *)
CanAcquire(lk) == lk.holder = NoTask /\ lk.waiters = <<>>

Acquired(lk, t) == [lk EXCEPT !.holder = t]

Enqueued(lk, t) == [lk EXCEPT !.waiters = Append(@, t)]

Released(lk) == [lk EXCEPT !.holder = NoTask]

----------------------------------------------------------------------------
(* Initial state: lifespan() has run initialize_shuttle_locks,             *)
(* initialize_shuttle_queues and init_shuttle_states_redis, and started    *)
(* the workers and the heartbeat monitor.                                  *)

Configured(maxsize, workers, url) ==
    /\ settings = [COMMAND_QUEUE_MAX_SIZE |-> maxsize,
                   COMMAND_PROCESSOR_WORKERS |-> workers,
                   WMS_WEBHOOK_URL |-> url]
    /\ hooks = <<>>
    /\ received = <<>>
    /\ ACTIVE_SHUTTLE_CONNECTIONS = Cardinality(Shuttles)
    /\ strangers = 0
    /\ txn = [u \in Updaters |-> NoTxn]
    /\ shuttle_locks = [s \in Shuttles |-> FreeLock]
    /\ shuttle_queues = [s \in Shuttles |-> <<>>]
    /\ putters = [s \in Shuttles |-> <<>>]
    /\ command_registry = {}
    /\ args = [t \in Tasks |-> NoArgs]
    /\ wpos = [w \in Workers |-> 0]
    /\ failed_shuttles = {}
    /\ hbpos = 0
    /\ msg = [s \in Shuttles |-> NoMsg]
    /\ upd = [s \in Shuttles |-> <<>>]
    /\ conn = [s \in Shuttles |-> Accepted(0)]
    /\ now = 0
    /\ nextStamp = 0
    /\ nmsg = 0
    /\ ncalls = 0

(* WMS_WEBHOOK_URL is empty unless the environment sets it *)
Wired(maxsize, workers) == Configured(maxsize, workers, "")

(* the tasks once lifespan() has started them and serves requests *)
Serving(workers) ==
    [t \in Tasks |->
        IF t \in Workers
        THEN (IF t[2] <= workers THEN "w_sleep" ELSE "not_started")
        ELSE IF t = Heartbeat THEN "hb_sleep"
        ELSE IF t = Lifespan THEN "serving" ELSE "idle"]

Gateway(maxsize, workers) ==
    /\ Wired(maxsize, workers)
    /\ state = [s \in Shuttles |-> InitialState]
    /\ pc = Serving(workers)

Started(maxsize, workers) ==
    /\ Gateway(maxsize, workers)
    /\ call = NoCall
    /\ wire = NoWire

Init == \E maxsize \in 1..MaxQueueSize, workers \in 1..MaxWorkers :
            Started(maxsize, workers)

----------------------------------------------------------------------------
(* Inputs of the model *)

SubmitCommands == {"HOME", "STATUS", "PALLET_IN", "PALLET_OUT", "FIFO"}

SubmitParams(cmd) == IF cmd \in {"FIFO", "FILO"} THEN ParamValues ELSE {NoParams}

CallerPriorities == {10}

SendErrors == {"CONNECTION_REFUSED"}

Messages == {"PALLET_IN_STARTED", "PALLET_IN_DONE", "STATUS=FREE", "STATUS=BUSY"}

hbVars == <<failed_shuttles, hbpos>>

listenerVars == <<msg, upd, nmsg, conn>>

clockVars == <<now, nextStamp, ncalls>>

webVars == <<hooks, received>>

gaugeVars == <<ACTIVE_SHUTTLE_CONNECTIONS, strangers>>

sideVars == <<call, webVars, gaugeVars, wire>>

----------------------------------------------------------------------------
(* Helpers shared by the coroutines *)

Min(a, b) == IF a < b THEN a ELSE b

command_priorities(cmd) ==
    CASE cmd = "HOME" -> 1
      [] cmd = "STATUS" -> 2
      [] cmd = "BATTERY" -> 3
      [] cmd = "MRCD" -> 4
      [] cmd = "PALLET_OUT" -> 5
      [] cmd = "PALLET_IN" -> 6
      [] cmd = "STACK_OUT" -> 7
      [] cmd = "STACK_IN" -> 8
      [] cmd = "FIFO" -> 9
      [] cmd = "FILO" -> 10
      [] cmd = "COUNT" -> 11
      [] cmd = "WDH" -> 12
      [] cmd = "WLH" -> 13
      [] OTHER -> 10

final_priority_Caller(cmd, priority) == priority

final_priority(cmd, priority) == Min(command_priorities(cmd), priority)

full(q) == IF settings.COMMAND_QUEUE_MAX_SIZE <= 0 THEN FALSE
           ELSE Len(q) >= settings.COMMAND_QUEUE_MAX_SIZE

(* the worker's for loop: the first shuttle from index i on whose lock is   *)
(* not locked; 0 when the loop ends                                         *)
NextUnlocked(i, locks) ==
    LET C == {j \in i..Len(ShuttleOrder) : ~locked(locks[ShuttleOrder[j]])}
    IN  IF C = {} THEN 0 ELSE CHOOSE j \in C : \A k \in C : j <= k

WorkerPc(j) == IF j = 0 THEN "w_sleep" ELSE "w_get_state"

(* command_registry[command_id]["status"] = st, when the id is registered *)
RegistrySet(reg, id, st) ==
    {IF e.id = id THEN [e EXCEPT !.status = st] ELSE e : e \in reg}

Registered(reg, id) == \E e \in reg : e.id = id

RegistryStatus(reg, id) == (CHOOSE e \in reg : e.id = id).status

(* the heartbeat's for loop over the shuttles *)
HbNext ==
    IF hbpos < Len(ShuttleOrder)
    THEN /\ hbpos' = hbpos + 1
         /\ pc' = [pc EXCEPT ![Heartbeat] = "hb_get_state"]
    ELSE /\ hbpos' = 0
         /\ pc' = [pc EXCEPT ![Heartbeat] = "hb_sleep"]

(* process_wms_command_internal returns to its caller: a bypass submission  *)
(* leaves the lock and returns the value; a worker records the outcome,     *)
(* leaves the lock and goes on with the next shuttle.                       *)
Return(t, ok, metric) ==
    LET s == args[t].shuttle_id
        locks2 == [shuttle_locks EXCEPT ![s] = Released(@)]
        j == IF t \in Workers THEN NextUnlocked(wpos[t] + 1, locks2) ELSE 0
    IN  /\ shuttle_locks' = locks2
        /\ IF t \in Workers
           THEN /\ command_registry' =
                     RegistrySet(command_registry, args[t].id,
                                 IF ok THEN "completed" ELSE "failed")
                /\ args' = [args EXCEPT ![t] = NoArgs]
                /\ wpos' = [wpos EXCEPT ![t] = j]
                /\ pc' = [pc EXCEPT ![t] = WorkerPc(j)]
           ELSE /\ pc' = [pc EXCEPT ![t] = "returned"]
                /\ args' = [args EXCEPT ![t].ret = IF ok THEN "True" ELSE "False",
                                        ![t].metric = metric]
                /\ UNCHANGED <<command_registry, wpos>>

(* asyncio.PriorityQueue.put_nowait of the entry a client holds: the entry  *)
(* is appended and sifted; a TypeError of the sift leaves put() by raising  *)
Put(c, data) ==
    LET s == data.shuttle_id
        r == HeapPush(shuttle_queues[s], data)
    IN  /\ shuttle_queues' = [shuttle_queues EXCEPT ![s] = r.heap]
        /\ args' = [args EXCEPT ![c] =
                      [data EXCEPT !.ret = IF r.err THEN "TypeError"
                                           ELSE "command_id"]]
        /\ pc' = [pc EXCEPT ![c] = "returned"]

----------------------------------------------------------------------------
(* add_command_to_queue *)

add_command_to_queue(c, s, cmd, params, externaIID, priority, dt) ==
    /\ pc[c] = "idle"
    /\ \A d \in Clients : d[2] < c[2] => pc[d] # "idle"
    /\ ncalls' = ncalls + 1
    /\ now' = now + dt
    /\ IF cmd \in ALLOWED_WHEN_BUSY_COMMANDS
       THEN /\ args' = [args EXCEPT ![c] =
                          [NoArgs EXCEPT !.shuttle_id = s, !.command = cmd,
                                         !.params = params,
                                         !.externaIID = externaIID,
                                         !.priority = final_priority(cmd, priority)]]
            /\ IF CanAcquire(shuttle_locks[s])
               THEN /\ shuttle_locks' = [shuttle_locks EXCEPT ![s] = Acquired(@, c)]
                    /\ pc' = [pc EXCEPT ![c] = "proc_get"]
               ELSE /\ shuttle_locks' = [shuttle_locks EXCEPT ![s] = Enqueued(@, c)]
                    /\ pc' = [pc EXCEPT ![c] = "wait_lock"]
            /\ UNCHANGED <<shuttle_queues, putters, nextStamp>>
       ELSE LET data == [NoArgs EXCEPT !.shuttle_id = s, !.command = cmd,
                                       !.params = params,
                                       !.externaIID = externaIID,
                                       !.priority = final_priority(cmd, priority),
                                       !.id = <<s, cmd, now + dt>>,
                                       !.timestamp = nextStamp + 1]
            IN  /\ nextStamp' = nextStamp + 1
                /\ IF full(shuttle_queues[s])
                   THEN /\ putters' = [putters EXCEPT ![s] = Append(@, c)]
                        /\ pc' = [pc EXCEPT ![c] = "put_wait"]
                        /\ args' = [args EXCEPT ![c] = data]
                        /\ UNCHANGED shuttle_queues
                   ELSE /\ Put(c, data)
                        /\ UNCHANGED putters
                /\ UNCHANGED shuttle_locks
    /\ UNCHANGED <<sideVars, settings, txn, state, command_registry, wpos, hbVars, listenerVars>>

(* a submission woken in Queue.put re-tests full() *)
put_resume(c) ==
    /\ pc[c] = "put_woken"
    /\ IF full(shuttle_queues[args[c].shuttle_id])
       THEN /\ putters' = [putters EXCEPT ![args[c].shuttle_id] = Append(@, c)]
            /\ pc' = [pc EXCEPT ![c] = "put_wait"]
            /\ UNCHANGED <<shuttle_queues, args>>
       ELSE /\ Put(c, args[c])
            /\ UNCHANGED putters
    /\ UNCHANGED <<sideVars, settings, txn, state, shuttle_locks, command_registry, wpos, hbVars,
                   listenerVars, clockVars>>

(* the caller has the value add_command_to_queue or cancel_command returned *)
deliver(c) ==
    /\ pc[c] = "returned"
    /\ pc' = [pc EXCEPT ![c] = "idle"]
    /\ args' = [args EXCEPT ![c] = NoArgs]
    /\ UNCHANGED <<sideVars, settings, txn, state, shuttle_locks, shuttle_queues, putters,
                   command_registry, wpos, hbVars, listenerVars, clockVars>>

(* a task waiting in Lock.acquire is woken by the release and takes the lock *)
lock_resume(t) ==
    /\ pc[t] = "wait_lock"
    /\ LET s == args[t].shuttle_id
       IN  /\ shuttle_locks[s].holder = NoTask
           /\ shuttle_locks[s].waiters # <<>>
           /\ Head(shuttle_locks[s].waiters) = t
           /\ shuttle_locks' = [shuttle_locks EXCEPT ![s] =
                                  [holder |-> t, waiters |-> Tail(@.waiters)]]
    /\ pc' = [pc EXCEPT ![t] = "proc_get"]
    /\ UNCHANGED <<sideVars, settings, txn, state, shuttle_queues, putters, command_registry, args,
                   wpos, hbVars, listenerVars, clockVars>>

----------------------------------------------------------------------------
(* process_wms_command_internal *)

BadParams(cmd, params) ==
    cmd \in {"FIFO", "FILO"} /\ (~Truthy(params) \/ ~IsDigit(params))

Busy(cmd, status) ==
    cmd \notin ALLOWED_WHEN_BUSY_COMMANDS /\ status \notin {"FREE", "UNKNOWN"}

(* from the parameter check to the start of the send *)
ValidateAndSend(t) ==
    IF BadParams(args[t].command, args[t].params)
    THEN Return(t, FALSE, "failure_bad_params")
    ELSE /\ pc' = [pc EXCEPT ![t] = "send"]
         /\ UNCHANGED <<shuttle_locks, command_registry, args, wpos>>

process_wms_command_internal(t) ==
    /\ pc[t] = "proc_get"
    /\ LET st == state[args[t].shuttle_id]
       IN  IF Busy(args[t].command, st.status)
           THEN Return(t, FALSE, "failure_busy")
           ELSE IF args[t].command = "HOME" /\ st.current_command # NoCommand
           THEN /\ pc' = [pc EXCEPT ![t] = "proc_home_clear"]
                /\ UNCHANGED <<shuttle_locks, command_registry, args, wpos>>
           ELSE ValidateAndSend(t)
    /\ UNCHANGED <<sideVars, settings, txn, state, shuttle_queues, putters, hbVars, listenerVars,
                   clockVars>>

process_home_clear(t) ==
    /\ pc[t] = "proc_home_clear"
    /\ state' = [state EXCEPT ![args[t].shuttle_id] =
                   update_shuttle_state_crud(@, [current_command |-> NoCommand])]
    /\ ValidateAndSend(t)
    /\ UNCHANGED <<sideVars, settings, txn, shuttle_queues, putters, hbVars, listenerVars,
                   clockVars>>

SuccessUpdates_KeepStatus(cmd, params, externaIID) ==
    IF cmd = "HOME"
    THEN [externaIID |-> externaIID, current_command |-> NoCommand]
    ELSE IF cmd # "MRCD"
    THEN [externaIID |-> externaIID,
          current_command |->
            [command |-> cmd,
             params |-> IF Truthy(params) THEN params ELSE NoParams]]
    ELSE [externaIID |-> externaIID]

SuccessUpdates(cmd, params, externaIID) ==
    IF cmd = "HOME"
    THEN [externaIID |-> externaIID, status |-> "FREE",
          current_command |-> NoCommand]
    ELSE IF cmd # "MRCD"
    THEN [externaIID |-> externaIID,
          current_command |->
            [command |-> cmd,
             params |-> IF Truthy(params) THEN params ELSE NoParams]]
    ELSE [externaIID |-> externaIID]

process_update(t) ==
    /\ pc[t] = "proc_update"
    /\ state' = [state EXCEPT ![args[t].shuttle_id] =
                   update_shuttle_state_crud(@,
                       SuccessUpdates(args[t].command, args[t].params,
                                      args[t].externaIID))]
    /\ Return(t, TRUE, "success")
    /\ UNCHANGED <<sideVars, settings, txn, shuttle_queues, putters, hbVars, listenerVars,
                   clockVars>>

----------------------------------------------------------------------------
(* The frame of a command: process_wms_command_internal hands params on    *)
(* for FIFO and FILO only, send_command_to_shuttle formats them            *)

(* int() on the digit strings of the model *)
int(p) ==
    CASE p = "1" -> 1
      [] p = "7" -> 7
      [] p = "007" -> 7
      [] p = "999" -> 999
      [] p = "1000" -> 1000
      [] p = "1234" -> 1234

(* the decimal digits of n *)
RECURSIVE Decimal(_)
Decimal(n) == IF n < 10 THEN <<n>> ELSE Append(Decimal(n \div 10), n % 10)

(* the format specification 03: zeros in front up to a width of three, and *)
(* every digit of a longer number                                          *)
RECURSIVE ZeroPadded(_, _)
ZeroPadded(digits, width) ==
    IF Len(digits) >= width THEN digits ELSE ZeroPadded(<<0>> \o digits, width)

(* f"{command}-{int(params):03}" and the newline, as the sequence of the   *)
(* command token and the characters after it                               *)
full_command(command, params) ==
    IF Truthy(params)
    THEN <<command, "-">> \o ZeroPadded(Decimal(int(params)), 3) \o <<"\n">>
    ELSE <<command, "\n">>

(* the parameter check of process_wms_command_internal *)
wire_params ==
    /\ wire.stage = "called"
    /\ wire' = IF BadParams(wire.command, wire.params)
               THEN [wire EXCEPT !.stage = "failure_bad_params"]
               ELSE [wire EXCEPT !.stage = "send",
                                 !.param_for_shuttle =
                                    IF wire.command \in {"FIFO", "FILO"}
                                    THEN wire.params ELSE "None"]
    /\ UNCHANGED <<call, webVars, gaugeVars, settings, state, txn, shuttle_locks,
                   shuttle_queues, putters, command_registry, pc, args, wpos,
                   hbVars, listenerVars, clockVars>>

(* send_command_to_shuttle builds the frame and writes it *)
wire_write ==
    /\ wire.stage = "send"
    /\ wire' = [wire EXCEPT !.stage = "written",
                            !.full_command =
                               full_command(wire.command, wire.param_for_shuttle)]
    /\ UNCHANGED <<call, webVars, gaugeVars, settings, state, txn, shuttle_locks,
                   shuttle_queues, putters, command_registry, pc, args, wpos,
                   hbVars, listenerVars, clockVars>>

----------------------------------------------------------------------------
(* send_command_to_shuttle, called through retry_with_backoff.  It catches  *)
(* every exception of the connection itself and returns False, so the      *)
(* retry helper sees a plain return value.                                  *)

(* max_retries of the dispatch and of the heartbeat monitor's probe *)
max_retries(t) == IF t = Heartbeat THEN 2 ELSE 3

RetriedExceptions == {"TimeoutError", "ConnectionRefusedError", "OSError"}

(* retry_with_backoff after a call of func that ended with result, the     *)
(* attempts-th call: a returned value is returned, an exception of the     *)
(* retried classes leads to another call unless the retries are used up    *)
retry_with_backoff(result, attempts, retries) ==
    IF result \in RetriedExceptions
    THEN (IF attempts > retries THEN "raise" ELSE "again")
    ELSE "return"

send_ok(t) ==
    /\ pc[t] = "send"
    /\ pc' = [pc EXCEPT ![t] = IF t = Heartbeat THEN "hb_update" ELSE "proc_update"]
    /\ args' = [args EXCEPT ![t].attempts = @ + 1]
    /\ UNCHANGED <<sideVars, settings, txn, state, shuttle_locks, shuttle_queues, putters,
                   command_registry, wpos, hbVars, listenerVars, clockVars>>

send_fail(t, code) ==
    /\ pc[t] = "send"
    /\ pc' = [pc EXCEPT ![t] = "send_fail_update"]
    /\ args' = [args EXCEPT ![t].error_code = code, ![t].attempts = @ + 1]
    /\ UNCHANGED <<sideVars, settings, txn, state, shuttle_locks, shuttle_queues, putters,
                   command_registry, wpos, hbVars, listenerVars, clockVars>>

(* the update in the except branch returns, send_command_to_shuttle        *)
(* returns False and the retry helper decides                              *)
send_fail_update(t) ==
    /\ pc[t] = "send_fail_update"
    /\ state' = [state EXCEPT ![args[t].shuttle_id] =
                   update_shuttle_state_crud(@,
                       [status |-> "ERROR", error_code |-> args[t].error_code])]
    /\ IF retry_with_backoff("False", args[t].attempts, max_retries(t)) = "again"
       THEN /\ pc' = [pc EXCEPT ![t] = "send"]
            /\ UNCHANGED <<shuttle_locks, command_registry, args, wpos, hbVars>>
       ELSE IF t = Heartbeat
       THEN /\ HbNext
            /\ args' = [args EXCEPT ![t] = NoArgs]
            /\ UNCHANGED <<shuttle_locks, command_registry, wpos, failed_shuttles>>
       ELSE /\ Return(t, FALSE, "failure_send_error")
            /\ UNCHANGED hbVars
    /\ UNCHANGED <<sideVars, settings, txn, shuttle_queues, putters, listenerVars, clockVars>>

----------------------------------------------------------------------------
(* command_processor_worker *)

(* the sleep(0.5) ends and the for loop starts again *)
worker_scan(w) ==
    /\ pc[w] = "w_sleep"
    /\ LET j == NextUnlocked(1, shuttle_locks)
       IN  /\ wpos' = [wpos EXCEPT ![w] = j]
           /\ pc' = [pc EXCEPT ![w] = WorkerPc(j)]
    /\ UNCHANGED <<sideVars, settings, txn, state, shuttle_locks, shuttle_queues, putters,
                   command_registry, args, hbVars, listenerVars, clockVars>>

(* get_nowait wakes the first submission waiting in put() *)
WakePutter(p, s) ==
    IF putters[s] = <<>> THEN p
    ELSE [p EXCEPT ![Head(putters[s])] = "put_woken"]

(* the state read returns: status test, get_nowait, cancelled test, lock *)
worker_pickup(w) ==
    /\ pc[w] = "w_get_state"
    /\ LET s == ShuttleOrder[wpos[w]]
           next == NextUnlocked(wpos[w] + 1, shuttle_locks)
           again == NextUnlocked(1, shuttle_locks)
           r == HeapPop(shuttle_queues[s])
       IN  IF state[s].status # "FREE" \/ shuttle_queues[s] = <<>>
           THEN /\ wpos' = [wpos EXCEPT ![w] = next]
                /\ pc' = [pc EXCEPT ![w] = WorkerPc(next)]
                /\ UNCHANGED <<shuttle_queues, putters, shuttle_locks, args,
                               command_registry>>
           ELSE IF r.err
           THEN \* TypeError out of heappop: caught by the loop's handler,
                \* the while loop starts the scan again
                /\ shuttle_queues' = [shuttle_queues EXCEPT ![s] = r.heap]
                /\ wpos' = [wpos EXCEPT ![w] = again]
                /\ pc' = [pc EXCEPT ![w] = WorkerPc(again)]
                /\ UNCHANGED <<putters, shuttle_locks, args, command_registry>>
           ELSE /\ shuttle_queues' = [shuttle_queues EXCEPT ![s] = r.heap]
                /\ putters' = [putters EXCEPT ![s] =
                                 IF @ = <<>> THEN @ ELSE Tail(@)]
                /\ IF /\ Registered(command_registry, r.item.id)
                      /\ RegistryStatus(command_registry, r.item.id) = "cancelled"
                   THEN /\ wpos' = [wpos EXCEPT ![w] = next]
                        /\ pc' = WakePutter([pc EXCEPT ![w] = WorkerPc(next)], s)
                        /\ UNCHANGED <<shuttle_locks, args, command_registry>>
                   ELSE /\ command_registry' =
                             RegistrySet(command_registry, r.item.id, "processing")
                        /\ args' = [args EXCEPT ![w] = r.item]
                        /\ wpos' = wpos
                        /\ shuttle_locks' = [shuttle_locks EXCEPT ![s] =
                               IF CanAcquire(@) THEN Acquired(@, w)
                               ELSE Enqueued(@, w)]
                        /\ pc' = WakePutter(
                                   [pc EXCEPT ![w] =
                                      IF CanAcquire(shuttle_locks[s])
                                      THEN "proc_get" ELSE "wait_lock"], s)
    /\ UNCHANGED <<sideVars, settings, txn, state, hbVars, listenerVars, clockVars>>

----------------------------------------------------------------------------
(* HeartbeatMonitor *)

heartbeat_wake ==
    /\ pc[Heartbeat] = "hb_sleep"
    /\ Len(ShuttleOrder) >= 1
    /\ hbpos' = 1
    /\ pc' = [pc EXCEPT ![Heartbeat] = "hb_get_state"]
    /\ UNCHANGED <<sideVars, settings, txn, state, shuttle_locks, shuttle_queues, putters,
                   command_registry, args, wpos, failed_shuttles,
                   listenerVars, clockVars>>

(* stale: time_since_last_seen > heartbeat_interval * 2 *)
check_shuttle(stale) ==
    /\ pc[Heartbeat] = "hb_get_state"
    /\ LET s == ShuttleOrder[hbpos]
       IN  IF stale \/ state[s].status = "ERROR"
           THEN /\ failed_shuttles' = failed_shuttles \cup {s}
                /\ args' = [args EXCEPT ![Heartbeat] =
                              [NoArgs EXCEPT !.shuttle_id = s, !.command = "STATUS"]]
                /\ pc' = [pc EXCEPT ![Heartbeat] = "send"]
                /\ UNCHANGED hbpos
           ELSE /\ failed_shuttles' = failed_shuttles \ {s}
                /\ HbNext
                /\ UNCHANGED args
    /\ UNCHANGED <<sideVars, settings, txn, state, shuttle_locks, shuttle_queues, putters,
                   command_registry, wpos, listenerVars, clockVars>>

heartbeat_interval == 30

Stale_Never(s) == FALSE

(* time_since_last_seen > self.heartbeat_interval * 2; current_time is    *)
(* read when the loop starts and the state of the shuttle right after it  *)
Stale(s) == now - state[s].last_seen > Ms(heartbeat_interval * 2)

(* the check of the shuttle the loop is at *)
check_shuttle_timed == check_shuttle(Stale(ShuttleOrder[hbpos]))

ReconnectUpdates_ErrorCodeOnly == [error_code |-> NoError]

(* the probe got through: the status is reset until the shuttle reports *)
ReconnectUpdates == [status |-> "UNKNOWN", error_code |-> NoError]

try_reconnect_update ==
    /\ pc[Heartbeat] = "hb_update"
    /\ state' = [state EXCEPT ![args[Heartbeat].shuttle_id] =
                   update_shuttle_state_crud(@, ReconnectUpdates)]
    /\ failed_shuttles' = failed_shuttles \ {args[Heartbeat].shuttle_id}
    /\ args' = [args EXCEPT ![Heartbeat] = NoArgs]
    /\ HbNext
    /\ UNCHANGED <<sideVars, settings, txn, shuttle_locks, shuttle_queues, putters,
                   command_registry, wpos, listenerVars, clockVars>>

----------------------------------------------------------------------------
(* Inbound listener: process_shuttle_message_internal *)

(* the messages of the model, by the tests of the interpreter they pass *)
StartedOp ==
    [m \in {"PALLET_IN_STARTED", "PALLET_OUT_STARTED", "HOME_STARTED",
            "SCAN_STARTED"} |->
        CASE m = "PALLET_IN_STARTED" -> "PALLET_IN"
          [] m = "PALLET_OUT_STARTED" -> "PALLET_OUT"
          [] m = "HOME_STARTED" -> "HOME"
          [] m = "SCAN_STARTED" -> "None"]

DoneMessages == {"PALLET_IN_DONE", "PALLET_OUT_DONE", "HOME_DONE"}

AbortMessages == {"PALLET_IN_ABORT"}

LocationMessages == {"LOCATION=A1"}

CountMessages == {"COUNT_A1=3"}

FCodeMessages == {"F_CODE=12"}

LowBatteryMessages == {"BATTERY=15%"}

(* STATUS=<v>: status_map.get(v.upper(), UNKNOWN) *)
status_map ==
    [m \in {"STATUS=FREE", "STATUS=CARGO", "STATUS=BUSY", "STATUS=NOT_READY",
            "STATUS=MOVING", "STATUS=ERROR"} |->
        CASE m = "STATUS=FREE" -> "FREE"
          [] m \in {"STATUS=CARGO", "STATUS=BUSY"} -> "BUSY"
          [] m = "STATUS=NOT_READY" -> "NOT_READY"
          [] m = "STATUS=MOVING" -> "MOVING"
          [] m = "STATUS=ERROR" -> "UNKNOWN"]

MsgTrigger(m) ==
    CASE m \in DOMAIN StartedOp -> StartedOp[m]
      [] m \in DoneMessages -> "DONE"
      [] m \in AbortMessages -> "ERROR"
      [] m \in LocationMessages \cup CountMessages -> "DONE"
      [] m \in LowBatteryMessages -> "BATTERY_LOW"
      [] m \in FCodeMessages -> "ERROR"
      [] OTHER -> "None"

ClearsCommand_NoFree == {"NOT_READY", "UNKNOWN"}

(* the reported statuses that clear current_command *)
ClearsCommand == {"FREE", "NOT_READY", "UNKNOWN"}

MsgUpdates(m) ==
    CASE m \in DOMAIN StartedOp ->
             IF StartedOp[m] = "None" THEN [status |-> "BUSY"] ELSE <<>>
      [] m \in AbortMessages -> [error_code |-> m]
      [] m \in LocationMessages \cup CountMessages ->
             [current_command |-> NoCommand]
      [] m \in DOMAIN status_map ->
             IF status_map[m] \in ClearsCommand
             THEN [status |-> status_map[m], current_command |-> NoCommand]
             ELSE [status |-> status_map[m]]
      [] m \in FCodeMessages -> [error_code |-> m, current_command |-> NoCommand]
      [] OTHER -> <<>>

Interpret(m, current_state) ==
    LET u == MsgUpdates(m)
        new_state == IF MsgTrigger(m) # "None"
                     THEN try_transition(current_state.status, MsgTrigger(m))
                     ELSE NoTransition
    IN  IF new_state # NoTransition
        THEN [f \in DOMAIN u \cup {"status"} |->
                IF f = "status" THEN new_state ELSE u[f]]
        ELSE u

(* data.decode('utf-8').strip() on the lines of the model *)
strip(line) ==
    CASE line = "MRCD " -> "MRCD"
      [] OTHER -> line

upper_AsIs(m) == m

(* str.upper() on the messages of the model *)
upper(m) ==
    CASE m = "mrcd" -> "MRCD"
      [] OTHER -> m

(* readuntil returns a line: the handler calls                              *)
(* process_shuttle_message_internal with the stripped text                  *)
receive_line(s, line) ==
    /\ conn[s].open
    /\ msg[s].stage = "idle"
    /\ nmsg' = nmsg + 1
    /\ msg' = [msg EXCEPT ![s] = [line |-> strip(line), stage |-> "get"]]
    /\ conn' = [conn EXCEPT ![s].wrote = 0]
    /\ UNCHANGED <<sideVars, settings, txn, state, shuttle_locks, shuttle_queues, putters,
                   command_registry, pc, args, wpos, hbVars, upd, clockVars>>

Dispatch_Awaited == "await"

(* process_shuttle_message_internal hands the coroutine to                 *)
(* asyncio.create_task and goes on to the update without waiting for it    *)
Dispatch == "create_task"

(* the tasks created for the lines of shuttle s have ended *)
Delivered(s) ==
    \A i \in 1..Len(hooks) : hooks[i].shuttle_id = s => hooks[i].stage = "done"

(* the coroutine handed to asyncio.create_task for message m *)
Webhook(s, m, updates, externaIID) ==
    [shuttle_id |-> s, message |-> m,
     status |-> IF "status" \in DOMAIN updates THEN updates.status ELSE "UNKNOWN",
     error_code |-> IF "error_code" \in DOMAIN updates
                    THEN updates.error_code ELSE NoError,
     externaIID |-> externaIID, stage |-> "created", result |-> "none"]

message_interpret(s) ==
    /\ msg[s].stage = "get"
    /\ upd' = [upd EXCEPT ![s] = Interpret(msg[s].line, state[s])]
    /\ msg' = [msg EXCEPT ![s].stage = "update"]
    /\ IF strip(settings.WMS_WEBHOOK_URL) # ""
       THEN hooks' = Append(hooks, Webhook(s, msg[s].line,
                                           Interpret(msg[s].line, state[s]),
                                           state[s].externaIID))
       ELSE UNCHANGED hooks
    /\ UNCHANGED <<call, wire, gaugeVars, received, settings, txn, state, shuttle_locks,
                   shuttle_queues, putters, command_registry, pc, args, wpos,
                   hbVars, nmsg, conn, clockVars>>

(* the update returns to the handler, which notes the time, writes MRCD    *)
(* unless the message was one, and waits for the write to drain            *)
message_update(s) ==
    /\ msg[s].stage = "update"
    /\ Dispatch = "await" => Delivered(s)
    /\ state' = [state EXCEPT ![s] = update_shuttle_state_crud(@, upd[s])]
    /\ upd' = [upd EXCEPT ![s] = <<>>]
    /\ IF upper(msg[s].line) # "MRCD"
       THEN /\ msg' = [msg EXCEPT ![s].stage = "drain"]
            /\ conn' = [conn EXCEPT ![s].last_seen = now, ![s].wrote = @ + 1]
       ELSE /\ msg' = [msg EXCEPT ![s] = NoMsg]
            /\ conn' = [conn EXCEPT ![s].last_seen = now, ![s].read_start = now]
    /\ UNCHANGED <<sideVars, settings, txn, shuttle_locks, shuttle_queues, putters,
                   command_registry, pc, args, wpos, hbVars, nmsg, clockVars>>

(* process_shuttle_message_internal raises (get_shuttle_state_crud has no   *)
(* handler of its own, a failure of the store leaves it as an exception):  *)
(* the handler logs it, notes the time and goes on to the MRCD write as    *)
(* after a processed line; the stored state is not written                 *)
message_raise(s) ==
    /\ msg[s].stage = "get"
    /\ IF upper(msg[s].line) # "MRCD"
       THEN /\ msg' = [msg EXCEPT ![s].stage = "drain"]
            /\ conn' = [conn EXCEPT ![s].last_seen = now, ![s].wrote = @ + 1]
       ELSE /\ msg' = [msg EXCEPT ![s] = NoMsg]
            /\ conn' = [conn EXCEPT ![s].last_seen = now, ![s].read_start = now]
    /\ UNCHANGED <<sideVars, settings, txn, state, shuttle_locks, shuttle_queues,
                   putters, command_registry, pc, args, wpos, hbVars, upd, nmsg,
                   clockVars>>

(* readuntil returns bytes that are not UTF-8: data.decode('utf-8') raises *)
(* UnicodeDecodeError before the try block around the processing, neither  *)
(* handler of the read loop takes it, and the outer handler logs it and    *)
(* closes the connection; nothing is written to the shuttle                *)
receive_undecodable(s) ==
    /\ conn[s].open
    /\ msg[s].stage = "idle"
    /\ nmsg' = nmsg + 1
    /\ conn' = [conn EXCEPT ![s] = Closed]
    /\ ACTIVE_SHUTTLE_CONNECTIONS' = ACTIVE_SHUTTLE_CONNECTIONS - 1
    /\ UNCHANGED <<call, wire, webVars, strangers, settings, txn, state, shuttle_locks,
                   shuttle_queues, putters, command_registry, pc, args, wpos,
                   hbVars, msg, upd, clockVars>>

DrainOutcomes == {"drained", "TimeoutError", "ConnectionResetError"}

(* The handler of asyncio.TimeoutError compares the silence with           *)
(* conf.SHUTTLE_TIMEOUT_SECONDS.  In handle_shuttle_client conf is the     *)
(* variable of the loop over SHUTTLES_CONFIG, which the break left at the  *)
(* ShuttleNetworkConfig of the shuttle: the attribute does not exist, the  *)
(* AttributeError leaves the read loop through the outer handler and the   *)
(* connection is closed with the stored state as it was.                   *)

ReadDue(s) ==
    /\ conn[s].open
    /\ msg[s].stage = "idle"
    /\ now >= conn[s].read_start + Ms(TCP_READ_TIMEOUT)

DrainDue(s) ==
    /\ msg[s].stage = "drain"
    /\ now >= conn[s].last_seen + Ms(TCP_WRITE_TIMEOUT)

(* writer.drain() under wait_for: it returns, or it times out (the handler  *)
(* of the read timeout catches that too), or the connection fails; in the  *)
(* last two cases the connection is closed and the gauge decremented       *)
ack_drained(s, outcome) ==
    /\ msg[s].stage = "drain"
    /\ outcome = "TimeoutError" => DrainDue(s)
    /\ IF outcome \in {"ConnectionResetError", "TimeoutError"}
       THEN /\ msg' = [msg EXCEPT ![s] = NoMsg]
            /\ conn' = [conn EXCEPT ![s] = Closed]
            /\ ACTIVE_SHUTTLE_CONNECTIONS' = ACTIVE_SHUTTLE_CONNECTIONS - 1
       ELSE /\ msg' = [msg EXCEPT ![s] = NoMsg]
            /\ conn' = [conn EXCEPT ![s].read_start = now]
            /\ UNCHANGED ACTIVE_SHUTTLE_CONNECTIONS
    /\ UNCHANGED <<call, wire, webVars, strangers, settings, txn, state, shuttle_locks, shuttle_queues, putters,
                   command_registry, pc, args, wpos, hbVars, upd, nmsg,
                   clockVars>>

(* reader.readuntil() under wait_for times out after TCP_READ_TIMEOUT *)
read_timeout(s) ==
    /\ ReadDue(s)
    /\ conn' = [conn EXCEPT ![s] = Closed]
    /\ ACTIVE_SHUTTLE_CONNECTIONS' = ACTIVE_SHUTTLE_CONNECTIONS - 1
    /\ UNCHANGED <<call, wire, webVars, strangers, settings, txn, state, shuttle_locks, shuttle_queues, putters,
                   command_registry, pc, args, wpos, hbVars, msg, upd, nmsg,
                   clockVars>>

(* the shuttle connects again *)
accept(s) ==
    /\ ~conn[s].open
    /\ msg[s].stage = "idle"
    /\ conn' = [conn EXCEPT ![s] = Accepted(now)]
    /\ ACTIVE_SHUTTLE_CONNECTIONS' = ACTIVE_SHUTTLE_CONNECTIONS + 1
    /\ UNCHANGED <<call, wire, webVars, strangers, settings, txn, state, shuttle_locks, shuttle_queues, putters,
                   command_registry, pc, args, wpos, hbVars, msg, upd, nmsg,
                   clockVars>>

(* settings.SHUTTLES_CONFIG: the host each shuttle connects from *)
SHUTTLES_CONFIG == [s \in Shuttles |-> [host |-> "10.0.0.1"]]

(* the addresses connections come from *)
Peers == {"10.0.0.1", "10.0.0.99"}

NoShuttle == "None"

RECURSIVE resolve_from(_, _)
resolve_from(i, shuttle_ip) ==
    IF i > Len(ShuttleOrder) THEN NoShuttle
    ELSE IF SHUTTLES_CONFIG[ShuttleOrder[i]].host = shuttle_ip
         THEN ShuttleOrder[i]
         ELSE resolve_from(i + 1, shuttle_ip)

resolve_First(shuttle_ip) == ShuttleOrder[1]

(* the loop over SHUTTLES_CONFIG: the first shuttle whose host is the peer *)
resolve(shuttle_ip) == resolve_from(1, shuttle_ip)

(* a peer connects: the gauge is incremented; a peer that resolves to no   *)
(* shuttle has its writer closed and the handler waits in wait_closed()    *)
connect(shuttle_ip) ==
    IF resolve(shuttle_ip) = NoShuttle
    THEN /\ strangers < MaxStrangers
         /\ ACTIVE_SHUTTLE_CONNECTIONS' = ACTIVE_SHUTTLE_CONNECTIONS + 1
         /\ strangers' = strangers + 1
         /\ UNCHANGED <<call, wire, webVars, settings, txn, state, shuttle_locks,
                        shuttle_queues, putters, command_registry, pc, args,
                        wpos, hbVars, listenerVars, clockVars>>
    ELSE accept(resolve(shuttle_ip))

(* wait_closed() of an unknown peer returns: the gauge is decremented and  *)
(* the handler returns                                                     *)
reject_closed ==
    /\ strangers > 0
    /\ ACTIVE_SHUTTLE_CONNECTIONS' = ACTIVE_SHUTTLE_CONNECTIONS - 1
    /\ strangers' = strangers - 1
    /\ UNCHANGED <<call, wire, webVars, settings, txn, state, shuttle_locks,
                   shuttle_queues, putters, command_registry, pc, args, wpos,
                   hbVars, listenerVars, clockVars>>

(* time passes, as long as no timer is due and the clock stays below limit *)
elapse(seconds, limit) ==
    /\ now + Ms(seconds) <= Ms(limit)
    /\ \A s \in Shuttles : ~ReadDue(s) /\ ~DrainDue(s)
    /\ now' = now + Ms(seconds)
    /\ UNCHANGED <<sideVars, settings, txn, state, shuttle_locks, shuttle_queues, putters,
                   command_registry, pc, args, wpos, hbVars, listenerVars,
                   nextStamp, ncalls>>

tick(seconds) == elapse(seconds, MaxSeconds)

----------------------------------------------------------------------------
(* update_shuttle_state_crud step by step: WATCH, GET, then MULTI/SET/EXEC. *)
(* Redis fails the EXEC of a client whose watched key another client has   *)
(* written since the WATCH; the loop then starts again with a new WATCH.   *)

storeVars == <<sideVars, settings, shuttle_locks, shuttle_queues, putters, command_registry,
               pc, args, wpos, hbVars, listenerVars, nextStamp, ncalls>>

(* a caller enters update_shuttle_state_crud with its updates *)
crud_call(u, s, updates) ==
    /\ txn[u].stage = "idle"
    /\ txn' = [txn EXCEPT ![u] = [NoTxn EXCEPT !.stage = "begin",
                                               !.shuttle_id = s,
                                               !.updates = updates]]
    /\ UNCHANGED <<state, now, storeVars>>

crud_watch(u) ==
    /\ txn[u].stage = "begin"
    /\ txn' = [txn EXCEPT ![u].stage = "watched", ![u].dirty = FALSE]
    /\ UNCHANGED <<state, now, storeVars>>

(* the GET returns: the record is merged with the updates, stamped with    *)
(* time.time() and queued behind MULTI                                      *)
crud_get(u) ==
    /\ txn[u].stage = "watched"
    /\ IF state[txn[u].shuttle_id] = NoRecord
       THEN \* return None
            txn' = [txn EXCEPT ![u] = [NoTxn EXCEPT !.result = "None"]]
       ELSE txn' = [txn EXCEPT ![u].stage = "merged",
                               ![u].read = TRUE,
                               ![u].data = Merged(state[txn[u].shuttle_id],
                                                  txn[u].updates, now)]
    /\ UNCHANGED <<state, now, storeVars>>

WatchError_Never(u) == FALSE

(* EXEC raises WatchError: the watched key has been written since WATCH *)
WatchError(u) == txn[u].dirty

crud_execute(u) ==
    /\ txn[u].stage = "merged"
    /\ IF WatchError(u)
       THEN \* WatchError: continue
            /\ txn' = [txn EXCEPT ![u].stage = "begin", ![u].data = <<>>]
            /\ UNCHANGED state
       ELSE /\ state' = [state EXCEPT ![txn[u].shuttle_id] = txn[u].data]
            /\ txn' = [v \in Updaters |->
                         IF v = u THEN [NoTxn EXCEPT !.result = "new_state_obj"]
                         ELSE IF /\ txn[v].shuttle_id = txn[u].shuttle_id
                                 /\ txn[v].stage \in {"watched", "merged"}
                         THEN [txn[v] EXCEPT !.dirty = TRUE]
                         ELSE txn[v]]
    /\ UNCHANGED <<now, storeVars>>

(* a command of the transaction fails with an exception other than        *)
(* WatchError (the backend is unavailable): the call returns the record it *)
(* has read, if it has read one in this call, and None otherwise           *)
crud_error(u) ==
    /\ txn[u].stage \in {"begin", "watched", "merged"}
    /\ txn' = [txn EXCEPT ![u] =
                  [NoTxn EXCEPT !.result = IF txn[u].read
                                           THEN "current_state_obj"
                                           ELSE "None"]]
    /\ UNCHANGED <<state, now, storeVars>>

(* a step of the call of caller u: a reply of Redis to its next command *)
crud_step(u) == crud_watch(u) \/ crud_get(u) \/ crud_execute(u)

----------------------------------------------------------------------------
(* send_to_wms_webhook: each task opens a ClientSession of its own and     *)
(* posts the payload; it returns True on a 2xx response and False on any   *)
(* other response, on a timeout and on any other exception                 *)

WebhookOutcomes == {"200", "500", "TimeoutError", "ClientError"}

(* the request of task i reaches the endpoint *)
webhook_post(i) ==
    /\ i \in 1..Len(hooks)
    /\ hooks[i].stage = "created"
    /\ hooks' = [hooks EXCEPT ![i].stage = "posted"]
    /\ received' = Append(received, i)
    /\ UNCHANGED <<call, wire, gaugeVars, settings, state, txn, shuttle_locks,
                   shuttle_queues, putters, command_registry, pc, args, wpos,
                   hbVars, listenerVars, clockVars>>

(* the post of task i ends: with a response once the request has reached   *)
(* the endpoint, with an exception at any time                             *)
webhook_return(i, outcome) ==
    /\ i \in 1..Len(hooks)
    /\ hooks[i].stage \in {"created", "posted"}
    /\ outcome \in {"200", "500"} => hooks[i].stage = "posted"
    /\ hooks' = [hooks EXCEPT ![i].stage = "done",
                              ![i].result = IF outcome = "200" THEN "True"
                                            ELSE "False"]
    /\ UNCHANGED <<call, wire, gaugeVars, received, settings, state, txn,
                   shuttle_locks, shuttle_queues, putters, command_registry,
                   pc, args, wpos, hbVars, listenerVars, clockVars>>

----------------------------------------------------------------------------
(* init_shuttle_states_redis, called by lifespan() before any task is      *)
(* started.  Redis may hold the records an earlier run left.               *)

PersistedRecords ==
    {InitialState,
     [InitialState EXCEPT !.status = "FREE", !.externaIID = "E1"],
     [InitialState EXCEPT !.status = "ERROR",
                          !.error_code = "CONNECTION_REFUSED"]}

Booting(maxsize, workers) ==
    /\ Wired(maxsize, workers)
    /\ call = NoCall
    /\ wire = NoWire
    /\ state \in [Shuttles -> {NoRecord} \cup PersistedRecords]
    /\ pc = [t \in Tasks |->
               IF t = Lifespan THEN "init_exists"
               ELSE IF t \in Workers \cup {Heartbeat} THEN "not_started"
               ELSE "idle"]

exists_Never(rec) == FALSE

(* r_crud.exists(key) *)
exists(rec) == rec # NoRecord

(* the keys the loop has dealt with: args[Lifespan] holds the last one *)
init_done ==
    IF args[Lifespan].shuttle_id = "None" THEN 0
    ELSE CHOOSE i \in 1..Len(ShuttleOrder) :
            ShuttleOrder[i] = args[Lifespan].shuttle_id

init_exists ==
    /\ pc[Lifespan] = "init_exists"
    /\ IF init_done = Len(ShuttleOrder)
       THEN /\ pc' = [pc EXCEPT ![Lifespan] = "starting"]
            /\ UNCHANGED args
       ELSE LET shuttle_id == ShuttleOrder[init_done + 1]
            IN  /\ args' = [args EXCEPT ![Lifespan].shuttle_id = shuttle_id]
                /\ IF ~exists(state[shuttle_id])
                   THEN pc' = [pc EXCEPT ![Lifespan] = "init_set"]
                   ELSE UNCHANGED pc
    /\ UNCHANGED <<sideVars, settings, txn, state, shuttle_locks, shuttle_queues,
                   putters, command_registry, wpos, hbVars, listenerVars,
                   clockVars>>

init_set ==
    /\ pc[Lifespan] = "init_set"
    /\ state' = [state EXCEPT ![args[Lifespan].shuttle_id] =
                   [InitialState EXCEPT !.last_seen = now]]
    /\ pc' = [pc EXCEPT ![Lifespan] = "init_exists"]
    /\ UNCHANGED <<sideVars, settings, txn, shuttle_locks, shuttle_queues,
                   putters, command_registry, args, wpos, hbVars, listenerVars,
                   clockVars>>

(* the listener, the workers and the heartbeat monitor are started *)
lifespan_start ==
    /\ pc[Lifespan] = "starting"
    /\ pc' = Serving(settings.COMMAND_PROCESSOR_WORKERS)
    /\ args' = [args EXCEPT ![Lifespan] = NoArgs]
    /\ UNCHANGED <<sideVars, settings, txn, state, shuttle_locks, shuttle_queues,
                   putters, command_registry, wpos, hbVars, listenerVars,
                   clockVars>>

----------------------------------------------------------------------------
(* lifespan() after the yield: the gateway stops *)

(* heartbeat_monitor.stop(): the monitor's task is cancelled and awaited;  *)
(* CancelledError ends its loop                                            *)
lifespan_stop ==
    /\ pc[Lifespan] = "serving"
    /\ pc' = [pc EXCEPT ![Lifespan] = "stopping", ![Heartbeat] = "hb_stopped"]
    /\ UNCHANGED <<sideVars, settings, txn, state, shuttle_locks, shuttle_queues,
                   putters, command_registry, args, wpos, hbVars, listenerVars,
                   clockVars>>

(* task.cancel() for every worker, then gather(): each worker will be      *)
(* resumed with CancelledError raised at the await it is suspended at      *)
lifespan_cancel ==
    /\ pc[Lifespan] = "stopping"
    /\ pc' = [t \in Tasks |->
                IF t = Lifespan THEN "gather"
                ELSE IF t \in Workers /\ pc[t] # "not_started" THEN "cancelled"
                ELSE pc[t]]
    /\ UNCHANGED <<sideVars, settings, txn, state, shuttle_locks, shuttle_queues,
                   putters, command_registry, args, wpos, hbVars, listenerVars,
                   clockVars>>

Uncancelled(lk, t) ==
    [holder |-> IF lk.holder = t THEN NoTask ELSE lk.holder,
     waiters |-> SelectSeq(lk.waiters, LAMBDA x : x # t)]

(* the worker is resumed: CancelledError leaves the call it is in, nothing *)
(* on the way catches it, `async with shuttle_lock` gives the lock up, and *)
(* the handler of the worker's loop breaks out of the loop                 *)
worker_cancelled(w) ==
    /\ pc[w] = "cancelled"
    /\ pc' = [pc EXCEPT ![w] = "exited"]
    /\ shuttle_locks' = [s \in Shuttles |-> Uncancelled(shuttle_locks[s], w)]
    /\ UNCHANGED <<sideVars, settings, txn, state, shuttle_queues, putters,
                   command_registry, args, wpos, hbVars, listenerVars,
                   clockVars>>

(* gather() returns once every worker has ended *)
lifespan_exit ==
    /\ pc[Lifespan] = "gather"
    /\ \A w \in Workers : pc[w] \in {"exited", "not_started"}
    /\ pc' = [pc EXCEPT ![Lifespan] = "stopped"]
    /\ UNCHANGED <<sideVars, settings, txn, state, shuttle_locks, shuttle_queues,
                   putters, command_registry, args, wpos, hbVars, listenerVars,
                   clockVars>>

----------------------------------------------------------------------------
(* cancel_command.  No statement of the gateway inserts a key into         *)
(* command_registry, so the lookup at its start is all a call executes.    *)

QueuedIds(q) == {q[i].id : i \in 1..Len(q)}

cancel_command_ReturnsTrue(command_id) ==
    /\ pc[Canceller] = "idle"
    /\ ~Registered(command_registry, command_id)
    /\ pc' = [pc EXCEPT ![Canceller] = "returned"]
    /\ args' = [args EXCEPT ![Canceller] =
                  [NoArgs EXCEPT !.id = command_id, !.ret = "True"]]
    /\ UNCHANGED <<sideVars, settings, txn, state, shuttle_locks, shuttle_queues, putters,
                   command_registry, wpos, hbVars, listenerVars, clockVars>>

cancel_command(command_id) ==
    /\ pc[Canceller] = "idle"
    /\ ~Registered(command_registry, command_id)
    /\ pc' = [pc EXCEPT ![Canceller] = "returned"]
    /\ args' = [args EXCEPT ![Canceller] =
                  [NoArgs EXCEPT !.id = command_id, !.ret = "False"]]
    /\ UNCHANGED <<sideVars, settings, txn, state, shuttle_locks, shuttle_queues, putters,
                   command_registry, wpos, hbVars, listenerVars, clockVars>>

----------------------------------------------------------------------------

(* submissions and inbound lines of the model are counted against bounds *)
Submit(c, s, cmd, params, priority, dt, budget) ==
    /\ ncalls < budget
    /\ now + dt <= MaxClock
    /\ add_command_to_queue(c, s, cmd, params, NoExternal, priority, dt)

Receive(s, m) ==
    /\ nmsg < MaxMessages
    /\ receive_line(s, m)

Heard(s, line) ==
    /\ nmsg < MaxLines
    /\ receive_line(s, line)

(* a submission at the present time *)
SubmitNow(c, s, cmd, params, priority, budget) ==
    /\ ncalls < budget
    /\ add_command_to_queue(c, s, cmd, params, NoExternal, priority, 0)

(* a submission on behalf of a WMS document *)
SubmitFor(c, s, cmd, externaIID, priority, budget) ==
    /\ ncalls < budget
    /\ add_command_to_queue(c, s, cmd, NoParams, externaIID, priority, 0)

Next ==
    \/ \E c \in Clients, s \in Shuttles, cmd \in SubmitCommands,
          priority \in CallerPriorities, dt \in 0..1 :
          \E params \in SubmitParams(cmd) :
             Submit(c, s, cmd, params, priority, dt, MaxSubmits)
    \/ \E c \in Clients : put_resume(c)
    \/ \E c \in Clients \cup {Canceller} : deliver(c)
    \/ \E t \in Clients \cup Workers : lock_resume(t)
    \/ \E t \in Clients \cup Workers : process_wms_command_internal(t)
    \/ \E t \in Clients \cup Workers : process_home_clear(t)
    \/ \E t \in Clients \cup Workers : process_update(t)
    \/ \E t \in Tasks : send_ok(t)
    \/ \E t \in Tasks, code \in SendErrors : send_fail(t, code)
    \/ \E t \in Tasks : send_fail_update(t)
    \/ \E w \in Workers : worker_scan(w)
    \/ \E w \in Workers : worker_pickup(w)
    \/ heartbeat_wake
    \/ \E stale \in BOOLEAN : check_shuttle(stale)
    \/ try_reconnect_update
    \/ \E s \in Shuttles, m \in Messages : Receive(s, m)
    \/ \E s \in Shuttles : message_interpret(s)
    \/ \E s \in Shuttles : message_update(s)
    \/ \E s \in Shuttles, outcome \in DrainOutcomes : ack_drained(s, outcome)
    \/ \E s \in Shuttles : \E id \in QueuedIds(shuttle_queues[s]) :
          cancel_command(id)

Spec == Init /\ [][Next]_vars

----------------------------------------------------------------------------
(* The queue side: two workers, submissions of every kind, failing sends   *)
(* and cancel_command, with room for two commands in the queue             *)

NextQueue ==
    \/ \E c \in Clients, s \in Shuttles, cmd \in SubmitCommands,
          priority \in CallerPriorities, dt \in 0..1 :
          \E params \in SubmitParams(cmd) :
             Submit(c, s, cmd, params, priority, dt, MaxSubmits)
    \/ \E c \in Clients \cup {Canceller} : deliver(c)
    \/ \E t \in Clients \cup Workers : lock_resume(t)
    \/ \E t \in Clients \cup Workers : process_wms_command_internal(t)
    \/ \E t \in Clients \cup Workers : process_home_clear(t)
    \/ \E t \in Clients \cup Workers : process_update(t)
    \/ \E t \in Clients \cup Workers : send_ok(t)
    \/ \E t \in Clients \cup Workers, code \in SendErrors : send_fail(t, code)
    \/ \E t \in Clients \cup Workers : send_fail_update(t)
    \/ \E w \in Workers : worker_scan(w)
    \/ \E w \in Workers : worker_pickup(w)
    \/ \E s \in Shuttles : \E id \in QueuedIds(shuttle_queues[s]) :
          cancel_command(id)

SpecQueue == Started(2, MaxWorkers) /\ [][NextQueue]_vars

----------------------------------------------------------------------------
(* A queue of the largest size served by one worker over a healthy         *)
(* connection: one caller submits HOME and the two pallet commands         *)

OrderCommands == {"HOME", "PALLET_IN", "PALLET_OUT"}

NextOrder ==
    \/ \E s \in Shuttles, cmd \in OrderCommands, priority \in CallerPriorities :
          Submit(Client(1), s, cmd, NoParams, priority, 0, MaxSubmitsHealthy)
    \/ deliver(Client(1))
    \/ \E t \in {Client(1)} \cup Workers : lock_resume(t)
    \/ \E t \in {Client(1)} \cup Workers : process_wms_command_internal(t)
    \/ \E t \in {Client(1)} \cup Workers : process_home_clear(t)
    \/ \E t \in {Client(1)} \cup Workers : process_update(t)
    \/ \E t \in {Client(1)} \cup Workers : send_ok(t)
    \/ \E w \in Workers : worker_scan(w)
    \/ \E w \in Workers : worker_pickup(w)

SpecOrder == Started(MaxQueueSize, 1) /\ [][NextOrder]_vars

----------------------------------------------------------------------------
(* A queue with room for two commands over a healthy connection:           *)
(* submissions that find it full                                           *)

CapacityCommands == {"HOME", "STATUS", "PALLET_IN"}

NextCapacity ==
    \/ \E c \in Clients, s \in Shuttles, cmd \in CapacityCommands,
          priority \in CallerPriorities :
          Submit(c, s, cmd, NoParams, priority, 0, MaxSubmitsHealthy)
    \/ \E c \in Clients : put_resume(c)
    \/ \E c \in Clients : deliver(c)
    \/ \E t \in Clients \cup Workers : lock_resume(t)
    \/ \E t \in Clients \cup Workers : process_wms_command_internal(t)
    \/ \E t \in Clients \cup Workers : process_home_clear(t)
    \/ \E t \in Clients \cup Workers : process_update(t)
    \/ \E t \in Clients \cup Workers : send_ok(t)
    \/ \E w \in Workers : worker_scan(w)
    \/ \E w \in Workers : worker_pickup(w)

SpecCapacity == Started(2, 1) /\ [][NextCapacity]_vars

----------------------------------------------------------------------------
(* The bypass path next to everything that runs beside it: a worker, the   *)
(* heartbeat monitor and the inbound listener.  The queue has room for one *)
(* command, and the shuttle was heard from within the last minute, so the  *)
(* monitor probes it only when its stored status is ERROR.                 *)

BypassCommands == {"HOME", "STATUS", "PALLET_IN"}

BypassMessages == {"PALLET_IN_STARTED", "STATUS=FREE", "STATUS=BUSY"}

NextBypass ==
    \/ \E c \in Clients, s \in Shuttles, cmd \in BypassCommands,
          priority \in CallerPriorities :
          Submit(c, s, cmd, NoParams, priority, 0, MaxSubmitsBypass)
    \/ \E c \in Clients : put_resume(c)
    \/ \E c \in Clients : deliver(c)
    \/ \E t \in Clients \cup Workers : lock_resume(t)
    \/ \E t \in Clients \cup Workers : process_wms_command_internal(t)
    \/ \E t \in Clients \cup Workers : process_home_clear(t)
    \/ \E t \in Clients \cup Workers : process_update(t)
    \/ \E t \in Tasks : send_ok(t)
    \/ \E t \in Tasks, code \in SendErrors : send_fail(t, code)
    \/ \E t \in Tasks : send_fail_update(t)
    \/ \E w \in Workers : worker_scan(w)
    \/ \E w \in Workers : worker_pickup(w)
    \/ heartbeat_wake
    \/ check_shuttle(FALSE)
    \/ try_reconnect_update
    \/ \E s \in Shuttles, m \in BypassMessages : Receive(s, m)
    \/ \E s \in Shuttles : message_interpret(s)
    \/ \E s \in Shuttles : message_update(s)
    \/ \E s \in Shuttles : ack_drained(s, "drained")

SpecBypass == Started(1, 1) /\ [][NextBypass]_vars

----------------------------------------------------------------------------
(* cancel_command called with any id the gateway can have issued, next to  *)
(* one caller and one worker: the id may be waiting in the queue, held by  *)
(* the worker, finished, or never issued                                   *)

CancelCommands == {"HOME", "PALLET_IN", "PALLET_OUT"}

CommandIds == {<<s, cmd, t>> : s \in Shuttles, cmd \in CancelCommands,
                               t \in 0..MaxClock}

NextCancel ==
    \/ \E s \in Shuttles, cmd \in CancelCommands, priority \in CallerPriorities,
          dt \in 0..1 :
          Submit(Client(1), s, cmd, NoParams, priority, dt, MaxSubmits)
    \/ \E c \in {Client(1), Canceller} : deliver(c)
    \/ \E t \in {Client(1)} \cup Workers : lock_resume(t)
    \/ \E t \in {Client(1)} \cup Workers : process_wms_command_internal(t)
    \/ \E t \in {Client(1)} \cup Workers : process_home_clear(t)
    \/ \E t \in {Client(1)} \cup Workers : process_update(t)
    \/ \E t \in {Client(1)} \cup Workers : send_ok(t)
    \/ \E t \in {Client(1)} \cup Workers, code \in SendErrors : send_fail(t, code)
    \/ \E t \in {Client(1)} \cup Workers : send_fail_update(t)
    \/ \E w \in Workers : worker_scan(w)
    \/ \E w \in Workers : worker_pickup(w)
    \/ \E id \in CommandIds : cancel_command(id)

SpecCancel == Started(2, 1) /\ [][NextCancel]_vars

----------------------------------------------------------------------------
(* One connection of the shuttle to the listener while time passes: lines  *)
(* in the letter case and with the spacing the shuttle chooses, writes     *)
(* that drain, time out or fail, silence, and reconnection                 *)

ListenerLines == {"PALLET_IN_STARTED", "PALLET_IN_DONE", "MRCD", "mrcd", "MRCD "}

NextListener ==
    \/ \E s \in Shuttles, line \in ListenerLines : Heard(s, line)
    \/ \E s \in Shuttles : message_interpret(s)
    \/ \E s \in Shuttles : message_update(s)
    \/ \E s \in Shuttles, outcome \in DrainOutcomes : ack_drained(s, outcome)
    \/ \E s \in Shuttles : read_timeout(s)
    \/ \E s \in Shuttles : accept(s)
    \/ tick(5)

SpecListener == Started(1, 1) /\ [][NextListener]_vars

----------------------------------------------------------------------------
(* Everything that writes ERROR or an error code, side by side: sends that *)
(* fail, lines of the shuttle that report an abort or a fault, silence on  *)
(* the connection, and next to them HOME and the heartbeat monitor's probe *)
(* that take the ERROR away                                                *)

ErrorCommands == {"HOME", "STATUS"}

ErrorLines == {"PALLET_IN_ABORT", "F_CODE=12", "STATUS=FREE"}

NextErrors ==
    \/ \E s \in Shuttles, cmd \in ErrorCommands, priority \in CallerPriorities :
          SubmitNow(Client(1), s, cmd, NoParams, priority, MaxSubmitsBypass)
    \/ deliver(Client(1))
    \/ process_wms_command_internal(Client(1))
    \/ process_home_clear(Client(1))
    \/ process_update(Client(1))
    \/ \E t \in {Client(1), Heartbeat} : send_ok(t)
    \/ \E t \in {Client(1), Heartbeat}, code \in SendErrors : send_fail(t, code)
    \/ \E t \in {Client(1), Heartbeat} : send_fail_update(t)
    \/ heartbeat_wake
    \/ check_shuttle(FALSE)
    \/ try_reconnect_update
    \/ \E s \in Shuttles, line \in ErrorLines : Heard(s, line)
    \/ \E s \in Shuttles : message_interpret(s)
    \/ \E s \in Shuttles : message_update(s)
    \/ \E s \in Shuttles : ack_drained(s, "drained")
    \/ \E s \in Shuttles : read_timeout(s)
    \/ \E s \in Shuttles : accept(s)
    \/ tick(20)

SpecErrors == Started(1, 1) /\ [][NextErrors]_vars

----------------------------------------------------------------------------
(* Two coroutines update the record of one shuttle at the same time while  *)
(* the clock goes on; a caller may put a last_seen of its own, of the      *)
(* past, the present or the future, into its updates                       *)

CallerStamps == {0, now, Ms(MaxSeconds)}

StoreUpdates ==
    {[current_command |-> NoCommand]}
    \cup {[last_seen |-> t] : t \in CallerStamps}
    \cup {[status |-> "ERROR", error_code |-> "F_CODE=12",
           last_seen |-> t] : t \in CallerStamps}

NextStore ==
    \/ \E u \in Updaters, s \in Shuttles : \E updates \in StoreUpdates :
          crud_call(u, s, updates)
    \/ \E u \in Updaters : crud_watch(u)
    \/ \E u \in Updaters : crud_get(u)
    \/ \E u \in Updaters : crud_execute(u)
    \/ tick(5)

SpecStore == Started(1, 1) /\ [][NextStore]_vars

----------------------------------------------------------------------------
(* Two callers of update_shuttle_state_crud that set different fields of   *)
(* one record: the updates the listener computes for STATUS=BUSY and for   *)
(* PALLET_IN_ABORT                                                         *)

RaceUpdates == {MsgUpdates("STATUS=BUSY"), MsgUpdates("PALLET_IN_ABORT")}

NextRace ==
    \/ \E u \in Updaters, s \in Shuttles : \E updates \in RaceUpdates :
          crud_call(u, s, updates)
    \/ \E u \in Updaters : crud_watch(u)
    \/ \E u \in Updaters : crud_get(u)
    \/ \E u \in Updaters : crud_execute(u)
    \/ tick(15)

SpecRace == Started(1, 1) /\ [][NextRace]_vars

----------------------------------------------------------------------------
(* The same callers with a backend that may fail, under fair scheduling:   *)
(* Redis answers every command a caller has sent                           *)

NextRetry ==
    \/ \E u \in Updaters, s \in Shuttles : \E updates \in RaceUpdates :
          crud_call(u, s, updates)
    \/ \E u \in Updaters : crud_watch(u)
    \/ \E u \in Updaters : crud_get(u)
    \/ \E u \in Updaters : crud_execute(u)
    \/ \E u \in Updaters : crud_error(u)
    \/ tick(15)

SpecRetry ==
    /\ Started(1, 1)
    /\ [][NextRetry]_vars
    /\ \A u \in Updaters : WF_vars(crud_step(u))

----------------------------------------------------------------------------
(* A command of a WMS document from submission to the shuttle's report of  *)
(* its end: HOME frees the shuttle, the worker sends the queued PALLET_IN  *)
(* over a healthy connection, and the shuttle reports on its progress      *)

TripCommands == {"HOME", "PALLET_IN"}

ExternalIds == {"E1"}

TripLines == {"PALLET_IN_STARTED", "PALLET_IN_DONE", "F_CODE=12"}

NextTrip ==
    \/ \E s \in Shuttles, cmd \in TripCommands, externaIID \in ExternalIds,
          priority \in CallerPriorities :
          SubmitFor(Client(1), s, cmd, externaIID, priority, MaxSubmits)
    \/ deliver(Client(1))
    \/ \E t \in {Client(1)} \cup Workers : lock_resume(t)
    \/ \E t \in {Client(1)} \cup Workers : process_wms_command_internal(t)
    \/ \E t \in {Client(1)} \cup Workers : process_home_clear(t)
    \/ \E t \in {Client(1)} \cup Workers : process_update(t)
    \/ \E t \in {Client(1)} \cup Workers : send_ok(t)
    \/ \E w \in Workers : worker_scan(w)
    \/ \E w \in Workers : worker_pickup(w)
    \/ \E s \in Shuttles, line \in TripLines : Heard(s, line)
    \/ \E s \in Shuttles : message_interpret(s)
    \/ \E s \in Shuttles : message_update(s)
    \/ \E s \in Shuttles : ack_drained(s, "drained")

SpecTrip == Started(1, 1) /\ [][NextTrip]_vars

----------------------------------------------------------------------------
(* The gateway is stopped while commands are submitted and executed *)

NextShutdown ==
    \/ \E s \in Shuttles, cmd \in TripCommands, externaIID \in ExternalIds,
          priority \in CallerPriorities :
          SubmitFor(Client(1), s, cmd, externaIID, priority, MaxSubmits)
    \/ deliver(Client(1))
    \/ \E t \in {Client(1)} \cup Workers : lock_resume(t)
    \/ \E t \in {Client(1)} \cup Workers : process_wms_command_internal(t)
    \/ \E t \in {Client(1)} \cup Workers : process_home_clear(t)
    \/ \E t \in {Client(1)} \cup Workers : process_update(t)
    \/ \E t \in {Client(1)} \cup Workers : send_ok(t)
    \/ \E w \in Workers : worker_scan(w)
    \/ \E w \in Workers : worker_pickup(w)
    \/ lifespan_stop
    \/ lifespan_cancel
    \/ \E w \in Workers : worker_cancelled(w)
    \/ lifespan_exit

SpecShutdown == Started(1, 1) /\ [][NextShutdown]_vars

----------------------------------------------------------------------------
(* A shuttle that reports that it carries cargo while an unload is         *)
(* submitted for it: one caller, one worker, a healthy connection          *)

CargoCommands == {"HOME", "PALLET_OUT"}

CargoLines == {"STATUS=CARGO", "STATUS=FREE"}

NextCargo ==
    \/ \E s \in Shuttles, cmd \in CargoCommands, priority \in CallerPriorities :
          SubmitNow(Client(1), s, cmd, NoParams, priority, MaxSubmitsBypass)
    \/ deliver(Client(1))
    \/ \E t \in {Client(1)} \cup Workers : lock_resume(t)
    \/ \E t \in {Client(1)} \cup Workers : process_wms_command_internal(t)
    \/ \E t \in {Client(1)} \cup Workers : process_update(t)
    \/ \E t \in {Client(1)} \cup Workers : send_ok(t)
    \/ \E w \in Workers : worker_scan(w)
    \/ \E w \in Workers : worker_pickup(w)
    \/ \E s \in Shuttles, line \in CargoLines : Heard(s, line)
    \/ \E s \in Shuttles : message_interpret(s)
    \/ \E s \in Shuttles : message_update(s)
    \/ \E s \in Shuttles : ack_drained(s, "drained")

SpecCargo == Started(1, 1) /\ [][NextCargo]_vars

----------------------------------------------------------------------------
(* The queued command kinds submitted with two caller priorities to a      *)
(* shuttle one worker serves                                               *)

PriorityCommands ==
    {"HOME", "PALLET_OUT", "PALLET_IN", "STACK_OUT", "STACK_IN", "FIFO",
     "FILO", "COUNT"}

(* 10 is the priority the endpoints pass: below the table's value for    *)
(* COUNT, equal to it for FILO, above it for the other kinds; 3 is below  *)
(* every value of the table                                               *)
PriorityValues == {3, 10}

PriorityParams(cmd) == IF cmd \in {"FIFO", "FILO"} THEN {"7"} ELSE {NoParams}

NextPriority ==
    \/ \E s \in Shuttles, cmd \in PriorityCommands, priority \in PriorityValues :
          \E params \in PriorityParams(cmd) :
             SubmitNow(Client(1), s, cmd, params, priority, MaxSubmits)
    \/ deliver(Client(1))
    \/ \E t \in {Client(1)} \cup Workers : lock_resume(t)
    \/ \E t \in {Client(1)} \cup Workers : process_wms_command_internal(t)
    \/ \E t \in {Client(1)} \cup Workers : process_update(t)
    \/ \E t \in {Client(1)} \cup Workers : send_ok(t)
    \/ \E w \in Workers : worker_scan(w)
    \/ \E w \in Workers : worker_pickup(w)

SpecPriority == Started(MaxQueueSize, 1) /\ [][NextPriority]_vars

----------------------------------------------------------------------------
(* The frame on its own: a command of any kind with any params of the      *)
(* model is checked and written                                            *)

WireParams == ParamValues \cup {"7", "007", "999", "1000", "1234"}

Wires ==
    [stage : {"called"}, command : ShuttleCommand, params : WireParams,
     param_for_shuttle : {"None"}, full_command : {<<>>}]

NextFrame == wire_params \/ wire_write

Framing == Gateway(1, 1) /\ call = NoCall /\ wire \in Wires

SpecFrame == Framing /\ [][NextFrame]_vars

----------------------------------------------------------------------------
(* The state machine on its own: try_transition is called with a current   *)
(* status, a trigger, a shuttle and a context, and returns                 *)

Contexts == {NoExternal, "E1"}

Calls ==
    [stage : {"called"}, shuttle_id : Shuttles,
     current_state : ShuttleOperationalStatus, trigger : Triggers,
     context : Contexts, result : {NoTransition}]

transition_return ==
    /\ call.stage = "called"
    /\ call' = [call EXCEPT !.stage = "returned",
                            !.result = try_transition(call.current_state,
                                                      call.trigger)]
    /\ UNCHANGED <<wire, webVars, gaugeVars, settings, state, txn, shuttle_locks,
                   shuttle_queues, putters, command_registry, pc, args, wpos,
                   hbVars, listenerVars, clockVars>>

NextMachine == transition_return

Called == Gateway(1, 1) /\ call \in Calls /\ wire = NoWire

SpecMachine == Called /\ [][NextMachine]_vars

----------------------------------------------------------------------------
(* The start of the gateway over a Redis that holds nothing, or the        *)
(* record of an earlier run; update_shuttle_state_crud is called on what   *)
(* the store holds at that moment                                          *)

BootUpdates ==
    {[current_command |-> NoCommand], [status |-> "FREE"]}

NextBoot ==
    \/ init_exists
    \/ init_set
    \/ lifespan_start
    \/ \E u \in {Updater(1)}, s \in Shuttles : \E updates \in BootUpdates :
          crud_call(u, s, updates)
    \/ \E u \in {Updater(1)} : crud_watch(u)
    \/ \E u \in {Updater(1)} : crud_get(u)
    \/ \E u \in {Updater(1)} : crud_execute(u)
    \/ tick(5)

SpecBoot == Booting(1, 1) /\ [][NextBoot]_vars

----------------------------------------------------------------------------
(* A shuttle reports STATUS=FREE, and reports it again, whatever record    *)
(* the store holds for it                                                  *)

StoredRecords ==
    [status : ShuttleOperationalStatus \ {"AWAITING_MRCD"},
     current_command : {NoCommand, [command |-> "PALLET_IN", params |-> NoParams]},
     error_code : {NoError, "F_CODE=12"},
     last_seen : {0},
     externaIID : {NoExternal, "E1"}]

Reporting ==
    /\ Wired(1, 1)
    /\ call = NoCall
    /\ wire = NoWire
    /\ pc = Serving(1)
    /\ state \in [Shuttles -> StoredRecords]

NextFree ==
    \/ \E s \in Shuttles : Heard(s, "STATUS=FREE")
    \/ \E s \in Shuttles : message_interpret(s)
    \/ \E s \in Shuttles : message_update(s)
    \/ \E s \in Shuttles : ack_drained(s, "drained")
    \/ tick(5)

SpecFree == Reporting /\ [][NextFree]_vars

----------------------------------------------------------------------------
(* The heartbeat monitor over two minutes of a shuttle that is connected   *)
(* and silent: the listener times the connection out, the monitor probes   *)

NextHeartbeat ==
    \/ heartbeat_wake
    \/ check_shuttle_timed
    \/ send_ok(Heartbeat)
    \/ \E code \in SendErrors : send_fail(Heartbeat, code)
    \/ send_fail_update(Heartbeat)
    \/ try_reconnect_update
    \/ \E s \in Shuttles : read_timeout(s)
    \/ \E s \in Shuttles : accept(s)
    \/ elapse(20, MaxHeartbeatSeconds)

SpecHeartbeat == Started(1, 1) /\ [][NextHeartbeat]_vars

----------------------------------------------------------------------------
(* The gateway with a webhook URL set: a shuttle reports its status, the   *)
(* start and the end of an operation, and each line is posted to the WMS   *)

WebhookURL == "http://wms/webhook"

WebhookLines == {"STATUS=FREE", "PALLET_IN_STARTED", "PALLET_IN_DONE"}

Hooked ==
    /\ Configured(1, 1, WebhookURL)
    /\ state = [s \in Shuttles |-> InitialState]
    /\ pc = Serving(1)
    /\ call = NoCall
    /\ wire = NoWire

NextWebhook ==
    \/ \E s \in Shuttles, line \in WebhookLines : Heard(s, line)
    \/ \E s \in Shuttles : message_interpret(s)
    \/ \E s \in Shuttles : message_update(s)
    \/ \E s \in Shuttles : ack_drained(s, "drained")
    \/ \E i \in 1..MaxLines : webhook_post(i)
    \/ \E i \in 1..MaxLines, outcome \in WebhookOutcomes :
          webhook_return(i, outcome)

SpecWebhook == Hooked /\ [][NextWebhook]_vars

----------------------------------------------------------------------------
(* The listener with known and unknown peers connecting *)

PeerLines == {"STATUS=FREE", "PALLET_IN_STARTED"}

NextPeers ==
    \/ \E shuttle_ip \in Peers : connect(shuttle_ip)
    \/ reject_closed
    \/ \E s \in Shuttles, line \in PeerLines : Heard(s, line)
    \/ \E s \in Shuttles : message_interpret(s)
    \/ \E s \in Shuttles : message_update(s)
    \/ \E s \in Shuttles : ack_drained(s, "drained")
    \/ \E s \in Shuttles : read_timeout(s)
    \/ tick(10)

SpecPeers == Started(1, 1) /\ [][NextPeers]_vars

----------------------------------------------------------------------------
(* Vocabulary of the properties *)

(* the bypass set as the interface description lists it *)
BypassSet == {"HOME", "STATUS", "MRCD", "BATTERY", "WDH", "WLH"}

(* the step is client c's call of the submission interface; args'[c] then   *)
(* holds the submitted command                                              *)
Submitted(c) == pc[c] = "idle" /\ pc'[c] # "idle"

(* the call made in this step has returned false and left the queues alone  *)
Rejected(c) ==
    /\ pc'[c] = "returned"
    /\ args'[c].ret = "False"
    /\ shuttle_queues' = shuttle_queues

(* positions of a bypass submission between taking and leaving the mutex    *)
UnderMutex == {"proc_get", "proc_home_clear", "send", "proc_update",
               "send_fail_update"}

Entries(q) == {q[i] : i \in 1..Len(q)}

(* a goes before b in the promised order of service *)
Precedes(a, b) ==
    \/ a.priority < b.priority
    \/ a.priority = b.priority /\ a.timestamp < b.timestamp

----------------------------------------------------------------------------
(* C1: for every shuttle at most one send is in progress at any time,      *)
(* counting the sends of bypass submissions, of the queue workers and of   *)
(* the heartbeat monitor's STATUS probe.                                   *)
C1_OneSendPerShuttle ==
    \A s \in Shuttles :
        Cardinality({t \in Tasks : pc[t] = "send" /\ args[t].shuttle_id = s}) <= 1

(* C2: for every shuttle at most one command is processing, that is,       *)
(* picked up from the queue by a worker and not yet finished.              *)
C2_OneProcessingPerShuttle ==
    \A s \in Shuttles :
        Cardinality({w \in Workers : args[w].shuttle_id = s}) <= 1

(* C3: a worker never takes a command out of a queue while a command that  *)
(* goes before it (lower priority number, or the same priority and         *)
(* enqueued earlier) is left waiting in that queue.                        *)
C3_DequeuedInOrder ==
    [][\A w \in Workers :
          (args[w] = NoArgs /\ args'[w] # NoArgs) =>
              \A e \in Entries(shuttle_queues'[args'[w].shuttle_id]) :
                  ~Precedes(e, args'[w])]_vars

(* C4: a non-bypass submission that finds the shuttle's queue holding      *)
(* COMMAND_QUEUE_MAX_SIZE commands returns false and leaves the queue      *)
(* unchanged.                                                              *)
C4_FullQueueRejects ==
    [][\A c \in Clients :
          (/\ Submitted(c)
           /\ args'[c].command \notin BypassSet
           /\ Len(shuttle_queues[args'[c].shuttle_id])
                 >= settings.COMMAND_QUEUE_MAX_SIZE)
          => Rejected(c)]_vars

(* C5: a non-bypass submission for a shuttle whose stored status is        *)
(* neither FREE nor UNKNOWN returns false and is neither enqueued nor sent.*)
C5_BusyRejected ==
    [][\A c \in Clients :
          (/\ Submitted(c)
           /\ args'[c].command \notin BypassSet
           /\ state[args'[c].shuttle_id].status \notin {"FREE", "UNKNOWN"})
          => Rejected(c)]_vars

(* C6: a submission of FIFO or FILO whose params is absent, empty or not   *)
(* made of decimal digits returns false and nothing is enqueued for it.    *)
C6_BadParamsRejected ==
    [][\A c \in Clients :
          (/\ Submitted(c)
           /\ args'[c].command \in {"FIFO", "FILO"}
           /\ args'[c].params \in {NoParams, "", "abc"})
          => Rejected(c)]_vars

(* C7: a submission of a command of the bypass set is never placed in a    *)
(* queue and no step of it changes a queue; once it has the shuttle's      *)
(* mutex it goes on to the send whatever the stored status is, it holds    *)
(* the mutex from then until it returns, and it never returns as busy.     *)
C7_BypassUnderMutex ==
    [][\A c \in Clients :
          /\ (Submitted(c) /\ args'[c].command \in BypassSet) =>
                 /\ pc'[c] \in {"proc_get", "wait_lock"}
                 /\ shuttle_queues' = shuttle_queues
          /\ (args[c].command \in BypassSet /\ pc'[c] # pc[c]) =>
                 shuttle_queues' = shuttle_queues
          /\ (args[c].command \in BypassSet /\ pc[c] = "proc_get"
                 /\ pc'[c] # pc[c]) =>
                 pc'[c] \in {"proc_home_clear", "send"}
          /\ (args'[c].command \in BypassSet /\ pc'[c] \in UnderMutex) =>
                 shuttle_locks'[args'[c].shuttle_id].holder = c
          /\ (args'[c].command \in BypassSet /\ pc'[c] = "returned") =>
                 args'[c].metric # "failure_busy"]_vars

(* a bypass submission is sending under the mutex while the shuttle is     *)
(* neither FREE nor UNKNOWN and a command waits in its queue               *)
C7_Witness ==
    \E c \in Clients :
        /\ pc[c] = "send"
        /\ args[c].command \in BypassSet
        /\ shuttle_locks[args[c].shuttle_id].holder = c
        /\ state[args[c].shuttle_id].status \notin {"FREE", "UNKNOWN"}
        /\ shuttle_queues[args[c].shuttle_id] # <<>>

(* C8: when a HOME submission whose send succeeded returns, the stored     *)
(* status is FREE and current_command is absent, whatever the status was   *)
(* before, and the submission returns true; a HOME submission is never     *)
(* turned away as busy or for its parameters.                              *)
C8_HomeFreesShuttle ==
    [][\A c \in Clients :
          /\ (args[c].command = "HOME" /\ pc[c] = "proc_update"
                 /\ pc'[c] # pc[c]) =>
                 /\ pc'[c] = "returned"
                 /\ args'[c].ret = "True"
                 /\ state'[args[c].shuttle_id].status = "FREE"
                 /\ state'[args[c].shuttle_id].current_command = NoCommand
          /\ (args'[c].command = "HOME" /\ pc'[c] = "returned") =>
                 args'[c].metric \notin {"failure_busy", "failure_bad_params"}]_vars

(* two HOME submissions have both returned true, the second one after the  *)
(* first, and the shuttle is FREE with no current command                  *)
C8_Witness ==
    /\ \A c \in Clients :
          /\ pc[c] = "returned"
          /\ args[c].command = "HOME"
          /\ args[c].ret = "True"
    /\ \A s \in Shuttles :
          /\ state[s].status = "FREE"
          /\ state[s].current_command = NoCommand

(* C9: cancel of a command that is still waiting in its shuttle's queue    *)
(* returns true and removes exactly that command from the queue.           *)
C9_CancelRemovesQueued ==
    [][(/\ pc[Canceller] = "idle"
        /\ pc'[Canceller] = "returned"
        /\ \E s \in Shuttles :
              args'[Canceller].id \in QueuedIds(shuttle_queues[s]))
       => /\ args'[Canceller].ret = "True"
          /\ \A s \in Shuttles :
                Entries(shuttle_queues'[s]) =
                    {e \in Entries(shuttle_queues[s]) :
                        e.id # args'[Canceller].id}]_vars

(* C11: cancel of an id that is not waiting in a queue (never issued, or   *)
(* its command finished) or whose command a worker is processing returns   *)
(* false and leaves every queue and the registry unchanged.                *)
C11_CancelFailsUnchanged ==
    [][(/\ pc[Canceller] = "idle"
        /\ pc'[Canceller] = "returned"
        /\ \/ \A s \in Shuttles :
                 args'[Canceller].id \notin QueuedIds(shuttle_queues[s])
           \/ \E w \in Workers : args[w].id = args'[Canceller].id)
       => /\ args'[Canceller].ret = "False"
          /\ shuttle_queues' = shuttle_queues
          /\ command_registry' = command_registry]_vars

(* cancel has returned false for the id of the command a worker is sending *)
(* while another command waits in the queue                                *)
C11_Witness ==
    /\ pc[Canceller] = "returned"
    /\ args[Canceller].ret = "False"
    /\ \E w \in Workers :
          /\ pc[w] = "send"
          /\ args[w].id = args[Canceller].id
          /\ shuttle_queues[args[w].shuttle_id] # <<>>
          /\ args[w].id \notin QueuedIds(shuttle_queues[args[w].shuttle_id])

(* C13, as stated: when the handler of a connection goes back to reading   *)
(* after a line other than MRCD it has written MRCD once on that           *)
(* connection, and after an MRCD line it has written nothing.              *)
C13_AckBeforeNextRead ==
    [][\A s \in Shuttles :
          (msg[s].stage \in {"update", "drain"} /\ msg'[s].stage = "idle"
              /\ conn'[s].open)
          => conn'[s].wrote = (IF msg[s].line # "MRCD" THEN 1 ELSE 0)]_vars

(* C13, amended: the same, where an MRCD line is a line that reads MRCD    *)
(* in any letter case once the white space around it is taken off.         *)
C13_AckUnlessMrcdAnyCase ==
    [][\A s \in Shuttles :
          (msg[s].stage \in {"update", "drain"} /\ msg'[s].stage = "idle"
              /\ conn'[s].open)
          => conn'[s].wrote =
                (IF msg[s].line \notin {"MRCD", "mrcd"} THEN 1 ELSE 0)]_vars

(* the handler has answered the second line of the connection with MRCD    *)
(* and is reading again                                                     *)
C13_Witness ==
    \E s \in Shuttles :
        /\ conn[s].open
        /\ msg[s].stage = "idle"
        /\ conn[s].wrote = 1
        /\ nmsg = 2

(* C14: a connection of a known shuttle that the handler gives up for     *)
(* silence is closed with the stored status of the shuttle put to ERROR    *)
(* and its error code to TIMEOUT_NO_RESPONSE.                              *)
C14_SilentConnectionClosed ==
    [][\A s \in Shuttles :
          (ReadDue(s) /\ conn[s].open /\ ~conn'[s].open)
          => /\ state'[s].status = "ERROR"
             /\ state'[s].error_code = "TIMEOUT_NO_RESPONSE"]_vars

(* C15: a dispatched PALLET_IN whose connection is refused fails, and the  *)
(* shuttle's state is put to ERROR / CONNECTION_REFUSED, only after one    *)
(* attempt and three retries.                                              *)
C15_RefusedAfterRetries ==
    [][\A t \in Clients \cup Workers :
          /\ (args[t].command = "PALLET_IN" /\ pc[t] = "send_fail_update"
                 /\ args[t].error_code = "CONNECTION_REFUSED"
                 /\ state'[args[t].shuttle_id].status = "ERROR")
             => args[t].attempts = 1 + 3
          /\ (args[t].command = "PALLET_IN" /\ pc[t] = "send_fail_update"
                 /\ pc'[t] \notin {"send", "send_fail_update"})
             => args[t].attempts = 1 + 3]_vars

(* C16: in every reachable state, a shuttle whose stored status is ERROR   *)
(* has an error code stored.                                               *)
C16_ErrorHasCode ==
    \A s \in Shuttles : state[s].status = "ERROR" => state[s].error_code # NoError

(* a HOME submission has returned true, and after it a fault report of    *)
(* the shuttle has put the stored status to ERROR with its code            *)
C16_Witness ==
    \E s \in Shuttles :
        /\ state[s].status = "ERROR"
        /\ state[s].error_code = "F_CODE=12"
        /\ pc[Client(1)] = "returned"
        /\ args[Client(1)].command = "HOME"
        /\ args[Client(1)].ret = "True"

(* C17: in every reachable state, a shuttle whose stored status is BUSY,   *)
(* LOADING, UNLOADING or MOVING has a current command stored.              *)
C17_WorkingHasCommand ==
    \A s \in Shuttles :
        state[s].status \in {"BUSY", "LOADING", "UNLOADING", "MOVING"}
        => state[s].current_command # NoCommand

(* C18: every committed update of a shuttle's record stores a last_seen    *)
(* that is not smaller than the last_seen stored before it, whatever       *)
(* last_seen the caller has put into its updates and whatever other        *)
(* updates of the record are under way.                                    *)
C18_LastSeenNeverDecreases ==
    [][\A s \in Shuttles : state'[s].last_seen >= state[s].last_seen]_vars

(* an update whose caller put an older last_seen than the stored one has   *)
(* lost the race against another update and is about to try again          *)
C18_Witness ==
    \E u \in Updaters :
        /\ txn[u].stage = "begin"
        /\ txn[u].dirty
        /\ "last_seen" \in DOMAIN txn[u].updates
        /\ txn[u].updates.last_seen < state[txn[u].shuttle_id].last_seen

(* C19: when the gateway has processed an <OP>_DONE line of a shuttle      *)
(* whose stored status is BUSY, LOADING, UNLOADING or MOVING, the stored   *)
(* status is FREE and no current command is stored.                        *)
C19_DoneFreesShuttle ==
    [][\A s \in Shuttles :
          (/\ msg[s].stage = "update"
           /\ msg'[s].stage # "update"
           /\ msg[s].line \in DoneMessages
           /\ state[s].status \in {"BUSY", "LOADING", "UNLOADING", "MOVING"})
          => /\ state'[s].status = "FREE"
             /\ state'[s].current_command = NoCommand]_vars

(* C20: when a line of the shuttle has taken its stored status to FREE on  *)
(* a DONE event, or to ERROR, no external id is stored for the shuttle     *)
(* any more.                                                               *)
C20_TerminalClearsExternalId ==
    [][\A s \in Shuttles :
          (/\ msg[s].stage = "update"
           /\ msg'[s].stage # "update"
           /\ state'[s].status # state[s].status
           /\ \/ state'[s].status = "ERROR"
              \/ state'[s].status = "FREE" /\ MsgTrigger(msg[s].line) = "DONE")
          => state'[s].externaIID = NoExternal]_vars

(* C21: try_transition returns the target the transition table gives for   *)
(* a listed (status, trigger) pair and no new status for any other pair,   *)
(* whatever the shuttle and the context: every trigger from UNKNOWN,       *)
(* NOT_READY and AWAITING_MRCD is rejected.                                *)
C21_TransitionTable ==
    LET st == call.current_state
        tr == call.trigger
        target ==
            CASE st = "FREE" /\ tr \in {"PALLET_IN", "STACK_IN"} -> "LOADING"
              [] st = "FREE" /\ tr \in {"PALLET_OUT", "STACK_OUT"} -> "UNLOADING"
              [] st = "FREE" /\ tr \in {"FIFO", "FILO", "HOME"} -> "MOVING"
              [] st = "FREE" /\ tr = "BATTERY_LOW" -> "LOW_BATTERY"
              [] st = "FREE" /\ tr = "ERROR" -> "ERROR"
              [] st \in {"BUSY", "LOADING", "UNLOADING"} /\ tr = "DONE" -> "FREE"
              [] st \in {"BUSY", "LOADING", "UNLOADING"} /\ tr = "HOME" -> "MOVING"
              [] st \in {"BUSY", "LOADING", "UNLOADING"} /\ tr = "ERROR" -> "ERROR"
              [] st = "MOVING" /\ tr = "DONE" -> "FREE"
              [] st = "MOVING" /\ tr = "ERROR" -> "ERROR"
              [] st = "ERROR" /\ tr = "RESET" -> "FREE"
              [] st = "LOW_BATTERY" /\ tr = "CHARGING" -> "CHARGING"
              [] st = "CHARGING" /\ tr = "CHARGED" -> "FREE"
              [] st \in {"CHARGING", "LOW_BATTERY"} /\ tr = "ERROR" -> "ERROR"
              [] OTHER -> NoTransition
    IN  call.stage = "returned" => call.result = target

(* a listed pair has been answered with its target *)
C21_Witness ==
    /\ call.stage = "returned"
    /\ call.current_state = "BUSY"
    /\ call.trigger = "HOME"
    /\ call.context = "E1"
    /\ call.result = "MOVING"

(* C22: initialisation writes a record, with status UNKNOWN, only for a    *)
(* shuttle that has none, so it never overwrites one; once it is over      *)
(* every configured shuttle has its record; and an update that finds no    *)
(* record returns nothing and leaves the store as it is.                   *)
C22_OneRecordPerShuttle ==
    [][/\ (pc[Lifespan] = "init_set" /\ pc'[Lifespan] # "init_set")
             => \A s \in Shuttles :
                   IF s = args[Lifespan].shuttle_id
                   THEN state[s] = NoRecord /\ state'[s].status = "UNKNOWN"
                   ELSE state'[s] = state[s]
       /\ (pc[Lifespan] = "init_exists" /\ args'[Lifespan] # args[Lifespan])
             => state' = state
       /\ pc'[Lifespan] = "serving"
             => \A s \in Shuttles : state'[s] # NoRecord
       /\ \A u \in Updaters :
             (txn[u].stage = "watched" /\ txn'[u].stage # "watched"
                 /\ state[txn[u].shuttle_id] = NoRecord)
             => /\ state' = state
                /\ txn'[u] = [NoTxn EXCEPT !.result = "None"]]_vars

(* the gateway serves with a record that initialisation created, after   *)
(* an update found none and returned nothing                               *)
C22_Witness ==
    /\ pc[Lifespan] = "serving"
    /\ \E s \in Shuttles : state[s] = [InitialState EXCEPT !.last_seen = 5000]
    /\ txn[Updater(1)] = [NoTxn EXCEPT !.result = "None"]

(* C23: processing the line STATUS=FREE leaves the record with status      *)
(* FREE and no current command, and processing it a second time changes    *)
(* no field but last_seen.                                                 *)
C23_StatusFreeIdempotent ==
    [][\A s \in Shuttles :
          (/\ msg[s].stage = "update"
           /\ msg'[s].stage # "update"
           /\ msg[s].line = "STATUS=FREE")
          => /\ state'[s].status = "FREE"
             /\ state'[s].current_command = NoCommand
             /\ nmsg = 2 =>
                   \A f \in DOMAIN state[s] \ {"last_seen"} :
                       state'[s][f] = state[s][f]]_vars

(* the second STATUS=FREE has been processed, five seconds after the       *)
(* first, on a record that had an error code and an external id            *)
C23_Witness ==
    \E s \in Shuttles :
        /\ nmsg = 2
        /\ msg[s].line = "STATUS=FREE"
        /\ msg[s].stage = "drain"
        /\ state[s] = [status |-> "FREE", current_command |-> NoCommand,
                       error_code |-> "F_CODE=12", last_seen |-> 5000,
                       externaIID |-> "E1"]

(* C24: a shuttle the monitor finds in ERROR, or not seen for more than    *)
(* twice the heartbeat interval (60 s), is put in the failed set and       *)
(* probed with STATUS; when the probe is sent the shuttle leaves the       *)
(* failed set and its error code is cleared; when the send fails the       *)
(* shuttle stays in the failed set.                                        *)
C24_HeartbeatProbe ==
    [][/\ (pc[Heartbeat] = "hb_get_state" /\ pc'[Heartbeat] # "hb_get_state")
             => LET s == ShuttleOrder[hbpos]
                IN  (state[s].status = "ERROR"
                        \/ now - state[s].last_seen > 60000)
                    => /\ s \in failed_shuttles'
                       /\ pc'[Heartbeat] = "send"
                       /\ args'[Heartbeat].shuttle_id = s
                       /\ args'[Heartbeat].command = "STATUS"
       /\ (pc[Heartbeat] = "hb_update" /\ pc'[Heartbeat] # "hb_update")
             => LET s == args[Heartbeat].shuttle_id
                IN  /\ s \notin failed_shuttles'
                    /\ state'[s].error_code = NoError
       /\ (pc[Heartbeat] \in {"send", "send_fail_update"}
              /\ pc'[Heartbeat] \notin {"send", "hb_update"})
             => LET s == args[Heartbeat].shuttle_id
                IN  s \in failed_shuttles']_vars

(* a shuttle that is not in ERROR and was last seen 80 s ago is in the     *)
(* failed set and the probe is being sent                                  *)
C24_Witness ==
    \E s \in Shuttles :
        /\ pc[Heartbeat] = "send"
        /\ args[Heartbeat].shuttle_id = s
        /\ s \in failed_shuttles
        /\ state[s].status = "UNKNOWN"
        /\ now - state[s].last_seen = 80000

(* C25: a step of a webhook delivery, whatever its outcome, changes no     *)
(* shuttle's stored state and nothing of the handler of the connection;    *)
(* and whatever the deliveries do, the state update of a line that is      *)
(* being processed, and the wait for its MRCD to drain, can go on.         *)
C25_WebhookApart ==
    /\ [][hooks' # hooks /\ Len(hooks') = Len(hooks)
            => UNCHANGED <<state, msg, upd, conn, nmsg>>]_vars
    /\ [](\A s \in Shuttles :
            /\ msg[s].stage = "update" => ENABLED message_update(s)
            /\ msg[s].stage = "drain" => ENABLED ack_drained(s, "drained"))

(* the line has been processed and acknowledged, the status stored, and    *)
(* its delivery has failed since                                           *)
C25_Witness ==
    \E s \in Shuttles :
        /\ Len(hooks) = 1
        /\ hooks[1].stage = "done"
        /\ hooks[1].result = "False"
        /\ hooks[1].message = "STATUS=FREE"
        /\ state[s].status = "FREE"
        /\ msg[s] = NoMsg
        /\ conn[s].wrote = 1

(* C26: the webhook endpoint receives the posts of the lines of one        *)
(* shuttle in the order in which the gateway received the lines.           *)
C26_PostsInOrder ==
    \A j, k \in 1..Len(received) :
        (j < k /\ hooks[received[j]].shuttle_id = hooks[received[k]].shuttle_id)
        => received[j] < received[k]

(* the connections the gauge counts: the open ones of the shuttles and the *)
(* ones of unknown peers that are being closed                             *)
Counted == Cardinality({s \in Shuttles : conn[s].open}) + strangers

(* C27: a connection from an address that is the host of no configured     *)
(* shuttle is closed with no line read or processed, no MRCD written and   *)
(* no stored state changed: accepting it and closing it leave the stored   *)
(* states, the lines in process and the connections of the shuttles as     *)
(* they are; the gauge counts it while it is being closed and no longer    *)
(* once it is closed.                                                      *)
C27_UnknownPeerRejected ==
    /\ [](ACTIVE_SHUTTLE_CONNECTIONS = Counted)
    /\ [][\A shuttle_ip \in Peers :
            ((\A s \in Shuttles : SHUTTLES_CONFIG[s].host # shuttle_ip)
                /\ connect(shuttle_ip))
            => /\ UNCHANGED <<state, msg, upd, nmsg, conn, hooks, txn>>
               /\ strangers' = strangers + 1]_vars
    /\ [][strangers' < strangers
            => /\ UNCHANGED <<state, msg, upd, nmsg, conn, hooks, txn>>
               /\ ACTIVE_SHUTTLE_CONNECTIONS' = ACTIVE_SHUTTLE_CONNECTIONS - 1]_vars

(* an unknown peer has connected and is being closed while the shuttle is  *)
(* connected and has had a line processed: the gauge counts both           *)
C27_Witness ==
    /\ strangers = 1
    /\ ACTIVE_SHUTTLE_CONNECTIONS = 2
    /\ nmsg = 1
    /\ \E s \in Shuttles : conn[s].open /\ msg[s] = NoMsg /\ state[s].status = "FREE"

(* C28: no committed update is lost.  A writer whose EXEC is accepted      *)
(* stores the record as it stands at that moment with its own fields set:  *)
(* every field it does not set (last_seen apart, which every write stamps) *)
(* keeps the value the last commit gave it.  A writer whose read has been  *)
(* invalidated by another commit writes nothing and starts again from      *)
(* WATCH and GET.                                                          *)
C28_NoLostUpdate ==
    [][\A u \in Updaters :
          (txn[u].stage = "merged" /\ txn'[u].stage # "merged")
          => LET s == txn[u].shuttle_id
             IN  IF txn[u].dirty
                 THEN /\ state' = state
                      /\ txn'[u].stage = "begin"
                      /\ txn'[u].updates = txn[u].updates
                 ELSE \A f \in DOMAIN state[s] \ {"last_seen"} :
                         state'[s][f] = IF f \in DOMAIN txn[u].updates
                                        THEN txn[u].updates[f]
                                        ELSE state[s][f]]_vars

(* both callers have committed, and the record holds the status set by    *)
(* the one and the error code set by the other                             *)
C28_Witness ==
    \E s \in Shuttles :
        /\ state[s].status = "BUSY"
        /\ state[s].error_code = "PALLET_IN_ABORT"
        /\ \A u \in Updaters : txn[u].result = "new_state_obj"

(* C29: a call of update_shuttle_state_crud returns after a bounded number *)
(* of write attempts, hence it returns: a call that has started is         *)
(* eventually over, also when each of its write attempts conflicts.        *)
C29_UpdateTerminates ==
    \A u \in Updaters : (txn[u].stage # "idle") ~> (txn[u].stage = "idle")

(* C30: a worker that has exited on shutdown has no command in hand: the   *)
(* command it was executing when the gateway stopped has been carried      *)
(* through to its return, and its outcome recorded, before the worker      *)
(* left its loop.                                                          *)
C30_WorkerFinishesCommand ==
    \A w \in Workers : pc[w] = "exited" => args[w] = NoArgs

(* the commands that have been queued and are waiting or being executed *)
InQueueOrInHand ==
    UNION {Entries(shuttle_queues[s]) : s \in Shuttles}
    \cup {args[w] : w \in {v \in Workers : args[v] # NoArgs}}

(* C31: the command_id of a queued command differs from the command_id of  *)
(* every other queued command, also of one of the same kind for the same   *)
(* shuttle submitted within the same millisecond.                          *)
C31_UniqueCommandIds ==
    \A x, y \in InQueueOrInHand : x # y => x.id # y.id

(* C32: a PALLET_OUT for a shuttle whose stored status is BUSY is taken up *)
(* and sent: a worker that looks at the BUSY shuttle with a PALLET_OUT at  *)
(* the head of its queue takes it, and a PALLET_OUT that                   *)
(* process_wms_command_internal finds the shuttle BUSY for goes on to the  *)
(* send.                                                                   *)
C32_PalletOutWhenBusy ==
    [][\A w \in Workers :
          /\ (/\ pc[w] = "w_get_state"
              /\ pc'[w] # "w_get_state"
              /\ state[ShuttleOrder[wpos[w]]].status = "BUSY"
              /\ shuttle_queues[ShuttleOrder[wpos[w]]] # <<>>
              /\ shuttle_queues[ShuttleOrder[wpos[w]]][1].command = "PALLET_OUT")
             => args'[w].command = "PALLET_OUT"
          /\ (/\ pc[w] = "proc_get"
              /\ pc'[w] # "proc_get"
              /\ args[w].command = "PALLET_OUT"
              /\ state[args[w].shuttle_id].status = "BUSY")
             => pc'[w] = "send"]_vars

C34_ThreeDigitFrame ==
    (wire.stage = "written" /\ wire.command \in {"FIFO", "FILO"})
    => /\ Len(wire.full_command) = 6
       /\ wire.full_command[1] = wire.command
       /\ wire.full_command[2] = "-"
       /\ \A i \in 3..5 : wire.full_command[i] \in 0..9
       /\ 100 * wire.full_command[3] + 10 * wire.full_command[4]
             + wire.full_command[5] = int(wire.params)
       /\ wire.full_command[6] = "\n"

----------------------------------------------------------------------------
(* Errors on an inbound line: the lines of a shuttle are read, decoded and *)
(* processed; the processing may raise, and the bytes may not decode; a    *)
(* shuttle whose connection was closed connects again                      *)

ParseLines == {"PALLET_IN_STARTED", "PALLET_IN_DONE", "STATUS=FREE", "STATUS=BUSY",
               "F_CODE=12", "MRCD", "mrcd"}

Garbled(s) ==
    /\ nmsg < MaxLines
    /\ receive_undecodable(s)

NextParse ==
    \/ \E s \in Shuttles, line \in ParseLines : Heard(s, line)
    \/ \E s \in Shuttles : Garbled(s)
    \/ \E s \in Shuttles : message_interpret(s)
    \/ \E s \in Shuttles : message_update(s)
    \/ \E s \in Shuttles : message_raise(s)
    \/ \E s \in Shuttles : ack_drained(s, "drained")
    \/ \E s \in Shuttles : accept(s)

SpecParse == Started(1, 1) /\ [][NextParse]_vars

(* C35: an error raised while the handler deals with a line of a shuttle   *)
(* (the processing raises, or the line does not decode) leaves the         *)
(* connection of the shuttle open, with MRCD written for the line unless   *)
(* the line was MRCD itself, and the handler on its way to the next read   *)
C35_ErrorKeepsConnection ==
    [][\A s \in Shuttles :
          /\ message_raise(s) =>
                /\ conn'[s].open
                /\ upper(msg[s].line) # "MRCD" =>
                      conn'[s].wrote = conn[s].wrote + 1 /\ msg'[s].stage = "drain"
                /\ upper(msg[s].line) = "MRCD" => msg'[s] = NoMsg
          /\ receive_undecodable(s) => conn'[s].open]_vars

----------------------------------------------------------------------------
(* The tasks under fair scheduling: the event loop runs every task that is *)
(* ready, so a task woken in Lock.acquire, a task whose read has returned  *)
(* or whose send has been answered, and a worker whose sleep has ended     *)
(* take their next step                                                    *)

TaskStep(t) ==
    \/ lock_resume(t)
    \/ process_wms_command_internal(t)
    \/ process_home_clear(t)
    \/ process_update(t)
    \/ send_ok(t)

WorkerStep(w) ==
    \/ worker_scan(w)
    \/ worker_pickup(w)
    \/ TaskStep(w)

SpecServe ==
    /\ Started(MaxQueueSize, 1)
    /\ [][NextOrder]_vars
    /\ WF_vars(TaskStep(Client(1)))
    /\ \A w \in Workers : WF_vars(WorkerStep(w))

(* the entry stamped k waits in the queue of shuttle s *)
Waiting(s, k) ==
    \E i \in 1..Len(shuttle_queues[s]) : shuttle_queues[s][i].timestamp = k

(* a worker holds the entry stamped k and runs it under the mutex *)
Executing(s, k) ==
    \E w \in Workers :
       /\ args[w].timestamp = k
       /\ args[w].shuttle_id = s
       /\ pc[w] = "proc_get"

(* C36: from a state where a command waits in the queue of a shuttle, if   *)
(* the stored status of the shuttle is FREE from then on and its mutex is  *)
(* free again and again, a worker comes to execute that command            *)
C36_QueuedIsExecuted ==
    \A s \in Shuttles, k \in 1..MaxSubmitsHealthy :
       []((/\ Waiting(s, k)
           /\ [](state[s].status = "FREE")
           /\ []<>(~locked(shuttle_locks[s])))
          => <>Executing(s, k))

----------------------------------------------------------------------------
(* C37: on the slice without a listener no shuttle ever reports the end of *)
(* a command, so a command a worker has sent stays the stored              *)
(* current_command until HOME clears it; a worker's send of a queued       *)
(* command is answered only when no earlier queued command is in progress  *)
C37_OneCommandInFlight ==
    [][\A w \in Workers :
          (pc[w] = "send" /\ pc'[w] = "proc_update")
          => state[args[w].shuttle_id].current_command = NoCommand]_vars

----------------------------------------------------------------------------
(* C38: the update that ends a bypass STATUS, BATTERY, WDH, WLH or MRCD    *)
(* submission, made while PALLET_IN is the stored current_command of the   *)
(* shuttle, leaves the stored current_command and externaIID as they were  *)
C38_BypassKeepsCommand ==
    [][\A c \in Clients :
          LET s == args[c].shuttle_id
          IN  (/\ pc[c] = "proc_update"
               /\ pc'[c] # "proc_update"
               /\ args[c].command \in {"STATUS", "BATTERY", "WDH", "WLH", "MRCD"}
               /\ state[s].current_command =
                     [command |-> "PALLET_IN", params |-> NoParams])
              => /\ state'[s].current_command = state[s].current_command
                 /\ state'[s].externaIID = state[s].externaIID]_vars

----------------------------------------------------------------------------
(* C39: a worker that holds a command it took from the queue, and whose    *)
(* state read in process_wms_command_internal returns, goes on to send the *)
(* command unless its params are invalid (a cancelled command never        *)
(* reaches the read): it is not turned away because of the stored status   *)
C39_DequeuedIsSent ==
    [][\A w \in Workers :
          (pc[w] = "proc_get" /\ pc'[w] # "proc_get")
          => \/ pc'[w] \in {"send", "proc_home_clear"}
             \/ BadParams(args[w].command, args[w].params)]_vars

----------------------------------------------------------------------------
(* The heartbeat monitor next to a shuttle that runs a long operation: the *)
(* shuttle reports STATUS=FREE, the start of PALLET_IN and, after a        *)
(* silence, its end; the listener times the silent connection out and the  *)
(* shuttle connects again; the monitor probes what it finds silent         *)

ProbeLines == {"STATUS=FREE", "PALLET_IN_STARTED", "PALLET_IN_DONE"}

Reported(s, line) ==
    /\ nmsg < MaxReports
    /\ receive_line(s, line)

NextProbe ==
    \/ \E s \in Shuttles, line \in ProbeLines : Reported(s, line)
    \/ \E s \in Shuttles : message_interpret(s)
    \/ \E s \in Shuttles : message_update(s)
    \/ \E s \in Shuttles : ack_drained(s, "drained")
    \/ \E s \in Shuttles : read_timeout(s)
    \/ \E s \in Shuttles : accept(s)
    \/ heartbeat_wake
    \/ check_shuttle_timed
    \/ send_ok(Heartbeat)
    \/ \E code \in SendErrors : send_fail(Heartbeat, code)
    \/ send_fail_update(Heartbeat)
    \/ try_reconnect_update
    \/ elapse(20, MaxHeartbeatSeconds)

SpecProbe == Started(1, 1) /\ [][NextProbe]_vars

(* the statuses of a shuttle that is executing a command *)
Executing_Statuses == {"LOADING", "UNLOADING", "MOVING", "BUSY"}

(* C40: a step of the heartbeat monitor leaves the stored status of every  *)
(* shuttle that is executing a command as it is, also when the shuttle has *)
(* been silent for more than twice the heartbeat interval                  *)
C40_ProbeKeepsStatus ==
    [][\A s \in Shuttles :
          (pc'[Heartbeat] # pc[Heartbeat] /\ state[s].status \in Executing_Statuses)
          => state'[s].status = state[s].status]_vars

====
